---- MODULE Spec2Model ----
(***************************************************************************)
(* The transformer worker of the Octonion Semantic Classifier              *)
(* (transformer-worker.js): its global state, its message handler and the  *)
(* pure functions the handler calls.                                       *)
(*                                                                         *)
(* Representation.                                                         *)
(*  - A JS string is a tuple of one-character strings.                     *)
(*  - JS arrays are TLA+ sequences: JS index k is TLA+ index k+1.          *)
(*  - The embedder is an external collaborator: EmbedOf stands for its     *)
(*    (deterministic) output on a string, a vector of integers;           *)
(*    every call may also fail.                                            *)
(*  - Floating point is modelled by exact integer arithmetic: a cosine     *)
(*    similarity is kept in hundredths, an exp score in ten-thousandths,   *)
(*    and the probability vector as the tuple of its numerators            *)
(*    (expScores) over the common denominator sumExp.                      *)
(*  - A handler runs without interruption from one await on the embedder   *)
(*    (or on the model loader) to the next; these awaits are the only      *)
(*    points at which another handler can run.                             *)
(***************************************************************************)
EXTENDS Integers, Sequences, FiniteSets, TLC

\* ------------------------------------------------------------------ bounds
\* handler activations that may be suspended at the same time
MaxInFlight == 2
\* of these, the ones that may be inside initEngine or
\* updatePrototypeEmbeddings at the same time
MaxUpdates == 1
\* longest chain of a propagate request
MaxChain == 3
\* longest text given to the chunker alone
MaxTextLen == 6
\* calls made by the owner of the worker
MaxCalls == 2
\* calls of the background script's initializeWorker
MaxInitCalls == 2
\* entries one call of mutateTable mutates
MaxMutations == 1
\* generations of the evolution engine
MaxGenerations == 7

\* ------------------------------------------------------- program constants
NumDims == 7
DefaultMaxChunkSize == 512
DefaultMinChunkSize == 100
MinTrimmedChunk == 10
SoftmaxScale == 5
\* the thresholds 0.1 and 0.8 of the diagnostics, in tenths
CohomologyThresholdTenths == 1
ZariskiThresholdTenths == 8

\* JS undefined where a number is expected (an element of a chain)
Undefined == 99

\* octTable with the index of e_1 * e_2 mistyped as 0
octTableZeroIndex ==
  << << <<-1,0>>, <<1,0>>,  <<1,7>>,  <<-1,2>>, <<1,6>>,  <<-1,5>>, <<-1,3>> >>,
     << <<-1,4>>, <<-1,0>>, <<1,5>>,  <<1,1>>,  <<-1,3>>, <<1,7>>,  <<-1,6>> >>,
     << <<-1,7>>, <<-1,5>>, <<-1,0>>, <<1,6>>,  <<1,2>>,  <<-1,4>>, <<1,1>>  >>,
     << <<1,2>>,  <<-1,1>>, <<-1,6>>, <<-1,0>>, <<1,7>>,  <<1,3>>,  <<-1,5>> >>,
     << <<-1,6>>, <<1,3>>,  <<-1,2>>, <<-1,7>>, <<-1,0>>, <<1,1>>,  <<1,4>>  >>,
     << <<1,5>>,  <<-1,7>>, <<1,4>>,  <<-1,3>>, <<-1,1>>, <<-1,0>>, <<1,2>>  >>,
     << <<1,3>>,  <<1,6>>,  <<-1,1>>, <<1,5>>,  <<-1,4>>, <<-1,2>>, <<-1,0>> >> >>

\* octTable with the sign of e_6 * e_7 mistyped as -1
octTableSignTypo ==
  << << <<-1,0>>, <<1,4>>,  <<1,7>>,  <<-1,2>>, <<1,6>>,  <<-1,5>>, <<-1,3>> >>,
     << <<-1,4>>, <<-1,0>>, <<1,5>>,  <<1,1>>,  <<-1,3>>, <<1,7>>,  <<-1,6>> >>,
     << <<-1,7>>, <<-1,5>>, <<-1,0>>, <<1,6>>,  <<1,2>>,  <<-1,4>>, <<1,1>>  >>,
     << <<1,2>>,  <<-1,1>>, <<-1,6>>, <<-1,0>>, <<1,7>>,  <<1,3>>,  <<-1,5>> >>,
     << <<-1,6>>, <<1,3>>,  <<-1,2>>, <<-1,7>>, <<-1,0>>, <<1,1>>,  <<1,4>>  >>,
     << <<1,5>>,  <<-1,7>>, <<1,4>>,  <<-1,3>>, <<-1,1>>, <<-1,0>>, <<-1,2>> >>,
     << <<1,3>>,  <<1,6>>,  <<-1,1>>, <<1,5>>,  <<-1,4>>, <<-1,2>>, <<-1,0>> >> >>

\* ------------------------------------------------------------- octTable
\* octTable[i][j] = <<sign, index>>, rows and columns 1..7; row 0 of the
\* source is null and column 0 of every row is null (see PropStep).
octTable ==
  << << <<-1,0>>, <<1,4>>,  <<1,7>>,  <<-1,2>>, <<1,6>>,  <<-1,5>>, <<-1,3>> >>,
     << <<-1,4>>, <<-1,0>>, <<1,5>>,  <<1,1>>,  <<-1,3>>, <<1,7>>,  <<-1,6>> >>,
     << <<-1,7>>, <<-1,5>>, <<-1,0>>, <<1,6>>,  <<1,2>>,  <<-1,4>>, <<1,1>>  >>,
     << <<1,2>>,  <<-1,1>>, <<-1,6>>, <<-1,0>>, <<1,7>>,  <<1,3>>,  <<-1,5>> >>,
     << <<-1,6>>, <<1,3>>,  <<-1,2>>, <<-1,7>>, <<-1,0>>, <<1,1>>,  <<1,4>>  >>,
     << <<1,5>>,  <<-1,7>>, <<1,4>>,  <<-1,3>>, <<-1,1>>, <<-1,0>>, <<1,2>>  >>,
     << <<1,3>>,  <<1,6>>,  <<-1,1>>, <<1,5>>,  <<-1,4>>, <<-1,2>>, <<-1,0>> >> >>

Dims == 1..NumDims

\* ------------------------------------------------------ verifyFanoStructure
\* The anti-commutativity loop: pairs i < j whose entries do not have the
\* same index and opposite signs.  (Diagonal entries are not examined.)
AntiCommFailures(t) ==
  { p \in Dims \X Dims :
      /\ p[1] < p[2]
      /\ \/ t[p[1]][p[2]][2] # t[p[2]][p[1]][2]
         \/ t[p[1]][p[2]][1] # -t[p[2]][p[1]][1] }

fanoCycles ==
  << <<1,2,4>>, <<2,3,5>>, <<3,4,6>>, <<4,5,7>>, <<5,6,1>>, <<6,7,2>>, <<7,1,3>> >>

\* The cycle loop: cycles whose three signs multiply to neither -1 nor 1.
CycleFailures(t) ==
  { k \in 1..Len(fanoCycles) :
      LET a == fanoCycles[k][1]
          b == fanoCycles[k][2]
          c == fanoCycles[k][3]
          product == t[a][b][1] * t[b][c][1] * t[c][a][1]
      IN  product # -1 /\ product # 1 }

verifyFanoStructure(t) ==
  [ valid    |-> AntiCommFailures(t) = {} /\ CycleFailures(t) = {},
    warnings |-> Cardinality(AntiCommFailures(t)) + Cardinality(CycleFailures(t)) ]

\* ------------------------------------------------------ propagateNarrative
\* PropStep without the sign carried over: [product[0], product[1]]
PropStepSignBug(t, acc, nextDim) ==
  IF nextDim # Undefined /\ (nextDim < 1 \/ nextDim > 7)
  THEN [err |-> "InvalidDimension", acc |-> acc]
  ELSE IF acc[2] \notin Dims
  THEN [err |-> "TypeError", acc |-> acc]
  ELSE IF nextDim = Undefined
  THEN [err |-> "InvalidMultiplication", acc |-> acc]
  ELSE LET product == t[acc[2]][nextDim]
       IN  [err |-> "none", acc |-> <<product[1], product[2]>>]

\* One iteration of the for loop over the chain: the error it throws, or
\* "none" and the new accumulator.
\*   nextDim < 1 || nextDim > 7        -> Error("Invalid dimension in chain")
\*   octTable[currentDim] null/undefined -> TypeError (row 0, rows above 7)
\*   !product                          -> Error("Invalid octonion multiplication")
PropStep(t, acc, nextDim) ==
  IF nextDim # Undefined /\ (nextDim < 1 \/ nextDim > 7)
  THEN [err |-> "InvalidDimension", acc |-> acc]
  ELSE IF acc[2] \notin Dims
  THEN [err |-> "TypeError", acc |-> acc]
  ELSE IF nextDim = Undefined
  THEN [err |-> "InvalidMultiplication", acc |-> acc]
  ELSE LET product == t[acc[2]][nextDim]
       IN  [err |-> "none", acc |-> <<acc[1] * product[1], product[2]>>]

RECURSIVE PropLoop(_, _, _, _, _)
PropLoop(t, acc, chain, i, steps) ==
  IF i > Len(chain)
  THEN [ok |-> TRUE, err |-> "none", errAt |-> 0,
        finalSign |-> acc[1], finalDimension |-> acc[2], steps |-> steps]
  ELSE LET r == PropStep(t, acc, chain[i])
       IN  IF r.err # "none"
           THEN [ok |-> FALSE, err |-> r.err, errAt |-> i,
                 finalSign |-> 0, finalDimension |-> 0, steps |-> steps]
           ELSE PropLoop(t, r.acc, chain, i + 1, Append(steps, r.acc))

\* steps[1] is the verbose step 0 (the start), steps[k+1] the state after
\* the k-th element of the chain.
propagateNarrative(t, startDim, chain) ==
  PropLoop(t, <<1, startDim>>, chain, 1, << <<1, startDim>> >>)

\* ------------------------------------------------------------- strings
Rep(c, n) == [k \in 1..n |-> c]

IsPunct(c) == c \in {".", "!", "?"}

\* smallest index >= p whose character is (punct = TRUE) or is not
\* (punct = FALSE) sentence-ending punctuation; 0 when there is none
RECURSIVE FirstAt(_, _, _)
FirstAt(text, p, punct) ==
  IF p > Len(text) THEN 0
  ELSE IF IsPunct(text[p]) = punct THEN p
  ELSE FirstAt(text, p + 1, punct)

\* text.match(/[^.!?]+[.!?]+/g): the successive leftmost matches, each a
\* maximal run of non-punctuation followed by a maximal run of punctuation.
\* Leading punctuation and an unterminated tail belong to no match.
RECURSIVE MatchAll(_, _)
MatchAll(text, p) ==
  LET q == FirstAt(text, p, FALSE)
      r == IF q = 0 THEN 0 ELSE FirstAt(text, q, TRUE)
      n == IF r = 0 THEN 0 ELSE FirstAt(text, r, FALSE)
      e == IF n = 0 THEN Len(text) ELSE n - 1
  IN  IF r = 0 THEN << >>
      ELSE <<SubSeq(text, q, e)>> \o MatchAll(text, e + 1)

\* text.match(...) || [text]
SentencesOf(text) ==
  IF MatchAll(text, 1) = << >> THEN <<text>> ELSE MatchAll(text, 1)

\* String.prototype.trim, whitespace being the space character
RECURSIVE TrimLeft(_)
TrimLeft(s) ==
  IF s # << >> /\ Head(s) = " " THEN TrimLeft(Tail(s)) ELSE s

RECURSIVE TrimRight(_)
TrimRight(s) ==
  IF s # << >> /\ s[Len(s)] = " " THEN TrimRight(SubSeq(s, 1, Len(s) - 1)) ELSE s

Trim(s) == TrimRight(TrimLeft(s))

\* ------------------------------------------------- classifyText: chunking
\* options.maxChunkSize || 512 : an absent or zero option gives the default
OptOr(v, default) == IF v = 0 THEN default ELSE v

\* ChunkLoop without the test of minChunkSize: the accumulated chunk is
\* emitted whenever the next sentence would exceed maxChunkSize
RECURSIVE ChunkLoopNoMin(_, _, _, _, _, _)
ChunkLoopNoMin(sentences, k, currentChunk, chunks, maxChunkSize, minChunkSize) ==
  IF k > Len(sentences)
  THEN IF currentChunk # << >> THEN Append(chunks, currentChunk) ELSE chunks
  ELSE LET sentence == sentences[k]
       IN  IF Len(currentChunk \o sentence) > maxChunkSize
           THEN ChunkLoopNoMin(sentences, k + 1, sentence,
                               Append(chunks, currentChunk),
                               maxChunkSize, minChunkSize)
           ELSE ChunkLoopNoMin(sentences, k + 1, currentChunk \o sentence, chunks,
                               maxChunkSize, minChunkSize)

RECURSIVE ChunkLoop(_, _, _, _, _, _)
ChunkLoop(sentences, k, currentChunk, chunks, maxChunkSize, minChunkSize) ==
  IF k > Len(sentences)
  THEN IF currentChunk # << >> THEN Append(chunks, currentChunk) ELSE chunks
  ELSE LET sentence == sentences[k]
       IN  IF Len(currentChunk \o sentence) > maxChunkSize
              /\ Len(currentChunk) >= minChunkSize
           THEN ChunkLoop(sentences, k + 1, sentence, Append(chunks, currentChunk),
                          maxChunkSize, minChunkSize)
           ELSE ChunkLoop(sentences, k + 1, currentChunk \o sentence, chunks,
                          maxChunkSize, minChunkSize)

ChunksOf(text, options) ==
  ChunkLoop(SentencesOf(text), 1, << >>, << >>,
            OptOr(options.maxChunkSize, DefaultMaxChunkSize),
            OptOr(options.minChunkSize, DefaultMinChunkSize))

\* index of the first chunk at or after k that is not skipped as trivial
\* (chunk.trim().length < 10); Len(chunks) + 1 when there is none
\* NextChunk with chunk.length in place of chunk.trim().length
RECURSIVE NextChunkNoTrim(_, _)
NextChunkNoTrim(chunks, k) ==
  IF k > Len(chunks) THEN k
  ELSE IF Len(chunks[k]) < MinTrimmedChunk THEN NextChunkNoTrim(chunks, k + 1)
  ELSE k

RECURSIVE NextChunk(_, _)
NextChunk(chunks, k) ==
  IF k > Len(chunks) THEN k
  ELSE IF Len(Trim(chunks[k])) < MinTrimmedChunk THEN NextChunk(chunks, k + 1)
  ELSE k

\* ------------------------------------------------------------- embedder
\* The external sentence embedder (pooling: 'mean', normalize: true): a
\* deterministic function of the string, with output of one fixed norm.
\* The stand-in picks a direction by the first letter of the string; a
\* string without a letter gets the zero vector.
RECURSIVE FirstLetter(_)
FirstLetter(s) ==
  IF s = << >> THEN "none"
  ELSE IF Head(s) \in {"a", "b", "c", "d", "e", "f", "g"} THEN Head(s)
  ELSE FirstLetter(Tail(s))

EmbedOf(s) ==
  CASE FirstLetter(s) = "a" -> <<60, 0>>
    [] FirstLetter(s) = "b" -> <<48, 36>>
    [] FirstLetter(s) = "c" -> <<36, 48>>
    [] FirstLetter(s) = "d" -> <<0, 60>>
    [] FirstLetter(s) = "e" -> <<-36, 48>>
    [] FirstLetter(s) = "f" -> <<-60, 0>>
    [] FirstLetter(s) = "g" -> <<0, -60>>
    [] OTHER -> <<0, 0>>

\* ----------------------------------------------------- cosineSimilarity
MinOf(a, b) == IF a < b THEN a ELSE b

RECURSIVE SqrtSearch(_, _, _)
SqrtSearch(n, lo, hi) ==
  IF lo >= hi THEN lo
  ELSE LET mid == (lo + hi + 1) \div 2
       IN  IF mid * mid <= n THEN SqrtSearch(n, mid, hi)
           ELSE SqrtSearch(n, lo, mid - 1)

\* floor of the square root
ISqrt(n) == SqrtSearch(n, 0, MinOf(n, 40000))

RECURSIVE SumTo(_, _)
SumTo(f, n) == IF n = 0 THEN 0 ELSE f[n] + SumTo(f, n - 1)

Dot(a, b) == SumTo([i \in 1..Len(a) |-> a[i] * b[i]], Len(a))

Abs(x) == IF x < 0 THEN -x ELSE x

\* dot / (Math.sqrt(magA) * Math.sqrt(magB)) || 0, in hundredths, rounded
\* towards zero; the square roots are taken to one decimal.  A zero
\* magnitude gives 0/0 = NaN, which || turns into 0.
cosineSimilarity(a, b) ==
  LET dot  == Dot(a, b)
      magA == Dot(a, a)
      magB == Dot(b, b)
      den  == ISqrt(magA * 100) * ISqrt(magB * 100)
      q    == IF den = 0 THEN 0 ELSE (Abs(dot) * 10000) \div den
      c    == IF q > 100 THEN 100 ELSE q
  IN  IF dot < 0 THEN -c ELSE c

\* ------------------------------------------------ classifyText: softmax
\* Math.exp(y), y in hundredths, result in ten-thousandths (Taylor series
\* summed until its terms vanish)
RECURSIVE ExpSeries(_, _, _)
ExpSeries(y, k, term) ==
  IF term = 0 THEN 0
  ELSE term + ExpSeries(y, k + 1, (term * y) \div (100 * k))

Exp(y) == ExpSeries(y, 1, 10000)

Max0(x) == IF x < 0 THEN 0 ELSE x

\* rawVector.map(x => Math.exp(Math.max(0, x) * 5))
ExpScores(rawVector) ==
  [k \in 1..Len(rawVector) |-> Exp(Max0(rawVector[k]) * SoftmaxScale)]

\* expScores.reduce((a, b) => a + b, 0)
SumExp(expScores) == SumTo(expScores, Len(expScores))

\* Math.max(...vector) over the numerators; 0 stands for -Infinity (the
\* empty vector), every numerator being at least Exp(0) > 0
MaxScore(v) ==
  IF v = << >> THEN 0
  ELSE CHOOSE m \in {v[k] : k \in 1..Len(v)} : \A k \in 1..Len(v) : v[k] <= m

\* IndexOfPlus1 with lastIndexOf in place of indexOf
IndexOfPlus1Last(v, x) ==
  IF \E k \in 1..Len(v) : v[k] = x
  THEN CHOOSE k \in 1..Len(v) : v[k] = x /\ \A j \in (k + 1)..Len(v) : v[j] # x
  ELSE 0

\* vector.indexOf(maxScore) + 1
IndexOfPlus1(v, x) ==
  IF \E k \in 1..Len(v) : v[k] = x
  THEN CHOOSE k \in 1..Len(v) : v[k] = x /\ \A j \in 1..(k - 1) : v[j] # x
  ELSE 0

\* currentLabels[dominant - 1]
LabelAt(labels, dominant) ==
  IF dominant \in 1..Len(labels) THEN labels[dominant] ELSE "undefined"

\* ------------------------------------------------ computeCohomologyClass
\* An entry of the probability vector is its numerator over sumExp, so that
\* diff > 0.1 reads diff * 10 > 1 * sumExp.
\* SignChange without the test of the sign: every |diff| over the threshold
\* is counted
SignChangeAbs(diff, sumExp) ==
  IF Abs(diff) * 10 > CohomologyThresholdTenths * sumExp THEN 1 ELSE 0

\* if (Math.abs(diff) > threshold) signChanges += diff > 0 ? 1 : 0
SignChange(diff, sumExp) ==
  IF Abs(diff) * 10 > CohomologyThresholdTenths * sumExp
  THEN (IF diff > 0 THEN 1 ELSE 0)
  ELSE 0

\* for (let i = 0; i < 7; i++): an index past the end of the vector reads
\* undefined, the difference is NaN and no comparison with it is true
RECURSIVE CohomologyLoop(_, _, _, _)
CohomologyLoop(vector, sumExp, i, signChanges) ==
  IF i >= NumDims THEN signChanges % 2
  ELSE LET a       == i + 1
           b       == ((i + 1) % NumDims) + 1
           defined == a <= Len(vector) /\ b <= Len(vector)
       IN  CohomologyLoop(vector, sumExp, i + 1,
             IF defined THEN signChanges + SignChange(vector[b] - vector[a], sumExp)
             ELSE signChanges)

computeCohomologyClass(vector, sumExp) == CohomologyLoop(vector, sumExp, 0, 0)

\* ------------------------------------------------------ zariskiCoverings
\* sum >= threshold with a threshold of 1
CoversAll(sum, sumExp) == sum >= sumExp

\* sum > threshold
CoversStrict(sum, sumExp) == sum * 10 > ZariskiThresholdTenths * sumExp

\* sum >= threshold
Covers(sum, sumExp) == sum * 10 >= ZariskiThresholdTenths * sumExp

\* mask & (1 << i)
BitSet(mask, i) == (mask \div (2 ^ i)) % 2 = 1

\* indices.push(i + 1) for the bits of the mask, i = 0 .. 6
RECURSIVE IndicesFrom(_, _)
IndicesFrom(mask, i) ==
  IF i >= NumDims THEN << >>
  ELSE (IF BitSet(mask, i) THEN <<i + 1>> ELSE << >>) \o IndicesFrom(mask, i + 1)

\* the indices array of every mask = 1 .. 127
MaskIndices == [mask \in 1..(2 ^ NumDims - 1) |-> IndicesFrom(mask, 0)]

\* the inner loop: the sum of the entries the mask selects; defined is
\* FALSE when the mask selects an index past the end of the vector (the sum
\* is then NaN)
MaskSum(vector, mask) ==
  LET indices == MaskIndices[mask]
  IN  IF indices[Len(indices)] > Len(vector)
      THEN [defined |-> FALSE, sum |-> 0]
      ELSE [defined |-> TRUE,
            sum     |-> SumTo([k \in 1..Len(indices) |-> vector[indices[k]]],
                              Len(indices))]

\* the masks of the covers pushed, for mask = 1 .. 127
zariskiCoverings(vector, sumExp) ==
  {mask \in 1..(2 ^ NumDims - 1) :
     LET selected == MaskSum(vector, mask)
     IN  selected.defined /\ Covers(selected.sum, sumExp)}

\* ------------------------------------------------ analyzeNarrativeTrajectory
\* vector.map(...).sort((a, b) => b.value - a.value): the dimensions by
\* descending value, equal values in index order (the sort is stable)
RECURSIVE SortedDims(_, _)
SortedDims(vector, left) ==
  IF left = {} THEN << >>
  ELSE LET best == CHOOSE d \in left :
                     \A o \in left : \/ vector[d] > vector[o]
                                     \/ vector[d] = vector[o] /\ d <= o
       IN  <<best>> \o SortedDims(vector, left \ {best})

\* sorted of an empty vector has no sorted[0]: reading .dim of undefined
\* raises a TypeError.  Otherwise the three propagations run in order and
\* the first one that throws ends the function.
analyzeNarrativeTrajectory(t, vector) ==
  IF vector = << >>
  THEN [ok |-> FALSE, startDimension |-> 0, linear |-> << >>,
        cyclic |-> << >>, resonant |-> << >>]
  ELSE
    LET sorted        == SortedDims(vector, 1..Len(vector))
        startDim      == sorted[1]
        topDims       == SubSeq(sorted, 2, MinOf(4, Len(sorted)))
        cyclicChain   == SubSeq(topDims, 1, MinOf(2, Len(topDims))) \o <<startDim>>
        resonantChain == Rep(IF topDims = << >> THEN Undefined ELSE topDims[1], 3)
        linear        == propagateNarrative(t, startDim, topDims)
        cyclic        == propagateNarrative(t, startDim, cyclicChain)
        resonant      == propagateNarrative(t, startDim, resonantChain)
    IN  [ok |-> linear.ok /\ cyclic.ok /\ resonant.ok,
         startDimension |-> startDim,
         linear |-> linear, cyclic |-> cyclic, resonant |-> resonant]

\* ------------------------------------------------------------ input data
\* The labels and prototype descriptions the worker starts with, and one
\* replacement set for set-labels.  Prototype descriptions are written by
\* their first letter; entry 1 is the unused index 0 of the source.
DefaultLabels ==
  <<"Root", "Sacral", "Solar-Plexus", "Heart", "Throat", "Third-Eye", "Crown">>

DefaultPrototypes ==
  << << >>, <<"a">>, <<"b">>, <<"c">>, <<"d">>, <<"e">>, <<"f">>, <<"g">> >>

NewLabels == <<"n1", "n2", "n3", "n4", "n5", "n6", "n7">>

NewPrototypes ==
  << << >>, <<"a">>, <<"b">>, <<"d">>, <<"c">>, <<"g">>, <<"f">>, <<"e">> >>

SixLabels == <<"s1", "s2", "s3", "s4", "s5", "s6">>

SevenPrototypes ==
  << <<"a">>, <<"b">>, <<"d">>, <<"c">>, <<"g">>, <<"f">>, <<"e">> >>

NoOptions == [maxChunkSize |-> 0, minChunkSize |-> 0]

SmallOptions == [maxChunkSize |-> 12, minChunkSize |-> 5]

\* "aaaaaaaaaaa."  /  "bbbbbbbbbbb. ccccccccccc."  /  "a."  /  ""
TextA == Rep("a", 11) \o <<".">>

TextBC == Rep("b", 11) \o <<".", " ">> \o Rep("c", 11) \o <<".">>

TextShort == <<"a", ".">>

\* "xxxxxxxxxxx." : a text the embedder maps to the zero vector
TextX == Rep("x", 11) \o <<".">>

TextEmpty == << >>

\* eleven spaces
TextBlank == Rep(" ", 11)

\* the set-labels requests: labels and prototypes / labels alone / six
\* labels / seven labels with a prototypes array of the wrong length
SetLabelsInputs ==
  { <<NewLabels, NewPrototypes>>, <<NewLabels, << >> >>, <<SixLabels, << >> >>,
    <<NewLabels, SevenPrototypes>> }

\* the classify requests: one chunk / two chunks / one chunk with a zero
\* embedding / no chunk of 10 characters / no text / white space alone
ClassifyInputs ==
  { <<TextA, NoOptions>>, <<TextBC, SmallOptions>>, <<TextX, NoOptions>>,
    <<TextShort, NoOptions>>, <<TextEmpty, NoOptions>>,
    <<TextBlank, NoOptions>> }

\* ------------------------------------------------------------------ state
VARIABLES
  embedder,             \* let embedder: FALSE is null, TRUE the loaded pipeline
  currentLabels,        \* let currentLabels
  prototypes,           \* let prototypes (8 entries, the first unused)
  prototypeEmbeddings,  \* let prototypeEmbeddings: null, or the array of
                        \*   embeddings pushed so far (each with its text)
  table,                \* const octTable
  tasks,                \* the suspended activations of initEngine and of
                        \*   self.onmessage, by slot
  posted,               \* the messages the last step passed to postMessage
  client,               \* the page or script that owns the worker: its ready
                        \*   flag, its calls and what became of them
  probe,                \* the argument of a function taken by itself: a
                        \*   probability vector, a table being mutated
  evolution             \* the self-evolving worker: its engine's rate,
                        \*   generation and histories

vars == <<embedder, currentLabels, prototypes, prototypeEmbeddings, table,
          tasks, posted, client, probe, evolution>>

Slots == 1..MaxInFlight

NoRequest ==
  [type |-> "none", labels |-> << >>, prototypes |-> << >>, text |-> << >>,
   options |-> NoOptions, startDim |-> 0, chain |-> << >>]

\* An activation: where it is suspended (pc), the embedder argument it waits
\* for (arg), the locals of the function it is in, and, for the record, the
\* labels and prototypes that were current when its request arrived and the
\* chunks that have been embedded.
Idle ==
  [kind |-> "idle", pc |-> "idle", req |-> NoRequest, i |-> 0, arg |-> << >>,
   fanoValid |-> TRUE, ci |-> 0, avgEmbedding |-> <<0, 0>>, validChunks |-> 0,
   labelsAtStart |-> << >>, prototypesAtStart |-> << >>, stableAtStart |-> FALSE,
   embedded |-> {}]

NullCache == [isNull |-> TRUE, items |-> << >>]

EmptyCache == [isNull |-> FALSE, items |-> << >>]

\* no page or script attached, and no vector under the diagnostics
NoClient == [kind |-> "none"]

NoProbe == [vector |-> << >>]

\* no self-evolving worker
NoEvolution == [generation |-> 0]

\* postMessage({ type: ... }); `of` is the request the message answers
Message(type, req) ==
  [type |-> type, of |-> req, err |-> "none", errAt |-> 0]

ErrorMessage(req, err, errAt) ==
  [type |-> "error", of |-> req, err |-> err, errAt |-> errAt]

\* initEngine's catch posts its error without a context
InitRequest == [NoRequest EXCEPT !.type = "init"]

Init ==
  /\ embedder = FALSE
  /\ currentLabels = DefaultLabels
  /\ prototypes = DefaultPrototypes
  /\ prototypeEmbeddings = NullCache
  /\ table = octTable
  \* initEngine() at load: suspended on pipeline(...)
  /\ tasks = [s \in Slots |->
                IF s = 1 THEN [Idle EXCEPT !.kind = "init", !.pc = "load",
                                           !.req = InitRequest]
                ELSE Idle]
  /\ posted = << >>
  /\ client = NoClient
  /\ probe = NoProbe
  /\ evolution = NoEvolution

\* the cache after updatePrototypeEmbeddings has run to its end on protos
FullCache(protos) ==
  [k \in 1..(Len(protos) - 1) |->
     [text |-> protos[k + 1], data |-> EmbedOf(protos[k + 1])]]

\* the strings whose embeddings the cache holds, in order
CacheTexts ==
  [k \in 1..Len(prototypeEmbeddings.items) |-> prototypeEmbeddings.items[k].text]

\* ----------------------------------------------------------- classifyText
\* From the similarities on: softmax, dominant dimension, label.
ClassifyResult(avgSum, validChunks, cache, labels) ==
  LET avgEmbedding == [k \in 1..Len(avgSum) |-> avgSum[k] \div validChunks]
      rawVector    == [k \in 1..Len(cache) |->
                         cosineSimilarity(avgEmbedding, cache[k].data)]
      expScores    == ExpScores(rawVector)
      maxScore     == MaxScore(expScores)
      dominant     == IndexOfPlus1(expScores, maxScore)
      sumExp       == SumExp(expScores)
  IN  [dominant         |-> dominant,
       label            |-> LabelAt(labels, dominant),
       vector           |-> expScores,
       sumExp           |-> sumExp,
       rawVector        |-> rawVector,
       avgEmbedding     |-> avgEmbedding,
       cohomologyClass  |-> computeCohomologyClass(expScores, sumExp),
       zariskiCoverings |-> Cardinality(zariskiCoverings(expScores, sumExp)),
       confidence       |-> maxScore,
       chunksProcessed  |-> validChunks]

\* case "classify", after classifyText returned: the trajectory analysis
\* and the message posted (the catch posts an error when it throws)
ClassifyAnswer(tk, avgSum, validChunks) ==
  LET result     == ClassifyResult(avgSum, validChunks,
                                   prototypeEmbeddings.items, currentLabels)
      trajectory == analyzeNarrativeTrajectory(table, result.vector)
  IN  IF trajectory.ok
      THEN [type |-> "classification", of |-> tk.req, err |-> "none", errAt |-> 0,
            result |-> result, trajectory |-> trajectory,
            cacheTexts |-> CacheTexts,
            labelsNow |-> currentLabels,
            labelsAtStart |-> tk.labelsAtStart,
            prototypesAtStart |-> tk.prototypesAtStart,
            stableAtStart |-> tk.stableAtStart,
            embedded |-> tk.embedded]
      ELSE [type |-> "error", of |-> tk.req, err |-> "TrajectoryError",
            errAt |-> 0, embedded |-> tk.embedded]

\* the chunk loop's body around the await: avgEmbedding[i] += embedding[i]
\* and validChunks++ when the embedder returned, nothing when it threw
AddEmbedding(avgEmbedding, embedding, ok) ==
  IF ok THEN [k \in 1..Len(embedding) |-> avgEmbedding[k] + embedding[k]]
  ELSE avgEmbedding

\* CountValid with validChunks++ ahead of the await
CountValidAlways(validChunks, ok) == validChunks + 1

CountValid(validChunks, ok) == IF ok THEN validChunks + 1 ELSE validChunks

\* ---------------------------------------------------------------- actions
FreeSlot(s) == tasks[s].pc = "idle" /\ \A o \in 1..(s - 1) : tasks[o].pc # "idle"

\* updatePrototypeEmbeddings up to its first await: the cache is replaced
\* by an empty array and embedder(prototypes[1]) is called.
UpdateTask(tk, protos) ==
  [tk EXCEPT !.pc = "proto", !.i = 1, !.arg = protos[2]]

\* classifyText from the chunking on, up to its first await: the task
\* suspended on the first chunk that is not skipped, or Idle when there is
\* none (validChunks === 0 throws).
ChunkTask(tk) ==
  LET chunks == ChunksOf(tk.req.text, tk.req.options)
      k      == NextChunk(chunks, 1)
  IN  IF k > Len(chunks) THEN Idle
      ELSE [tk EXCEPT !.pc = "chunk", !.ci = k,
                      !.avgEmbedding = <<0, 0>>, !.validChunks = 0,
                      !.embedded = {}]

\* case "init": await initEngine(), suspended on pipeline(...)
RecvInit(s) ==
  /\ FreeSlot(s)
  /\ tasks' = [tasks EXCEPT ![s] = [Idle EXCEPT !.kind = "init", !.pc = "load",
                                                !.req = InitRequest]]
  /\ posted' = << >>
  /\ UNCHANGED <<embedder, currentLabels, prototypes, prototypeEmbeddings,
                 table>>

\* initEngine resumed after pipeline(...): the embedder is stored, the table
\* verified (a warning is posted when it is not valid) and the prototype
\* embeddings are started; a rejected pipeline goes to the catch.
LoadDone(s, ok) ==
  /\ tasks[s].pc = "load"
  /\ IF ok
     THEN LET fanoCheck == verifyFanoStructure(table)
          IN  /\ embedder' = TRUE
              /\ prototypeEmbeddings' = EmptyCache
              /\ tasks' = [tasks EXCEPT ![s] =
                             UpdateTask([tasks[s] EXCEPT !.fanoValid = fanoCheck.valid],
                                        prototypes)]
              /\ posted' = IF fanoCheck.valid THEN << >>
                           ELSE <<Message("warning", InitRequest)>>
     ELSE /\ tasks' = [tasks EXCEPT ![s] = Idle]
          /\ posted' = <<ErrorMessage(InitRequest, "InitializationFailed", 0)>>
          /\ UNCHANGED <<embedder, prototypeEmbeddings>>
  /\ UNCHANGED <<currentLabels, prototypes, table>>

\* data.labels.length === 7 with <= in place of ===
LabelsValidAtMost(labels) == Len(labels) <= NumDims

\* data.labels && data.labels.length === 7
LabelsValid(labels) == Len(labels) = NumDims

\* case "set-labels"
RecvSetLabels(s, labels, protos) ==
  LET req == [NoRequest EXCEPT !.type = "set-labels", !.labels = labels,
                               !.prototypes = protos]
  IN
  /\ FreeSlot(s)
  /\ IF LabelsValid(labels)
     THEN /\ currentLabels' = labels
          /\ IF Len(protos) = 8
             THEN /\ prototypes' = protos
                  /\ prototypeEmbeddings' = EmptyCache
                  /\ IF embedder
                     THEN /\ tasks' = [tasks EXCEPT ![s] =
                                 UpdateTask([Idle EXCEPT !.kind = "set-labels",
                                                         !.req = req], protos)]
                          /\ posted' = << >>
                     \* embedder is null: calling it raises a TypeError
                     ELSE /\ posted' = <<ErrorMessage(req, "TypeError", 0)>>
                          /\ UNCHANGED tasks
             ELSE /\ posted' = <<[Message("labels-updated", req) EXCEPT
                                    !.of = req]>>
                  /\ UNCHANGED <<prototypes, prototypeEmbeddings, tasks>>
     ELSE /\ posted' = <<ErrorMessage(req, "LabelsMustBeSeven", 0)>>
          /\ UNCHANGED <<currentLabels, prototypes, prototypeEmbeddings, tasks>>
  /\ UNCHANGED <<embedder, table>>

\* case "classify", up to the first await of classifyText
RecvClassify(s, text, options) ==
  LET req == [NoRequest EXCEPT !.type = "classify", !.text = text,
                               !.options = options]
      tk  == [Idle EXCEPT !.kind = "classify", !.req = req,
                          !.labelsAtStart = currentLabels,
                          !.prototypesAtStart = prototypes,
                          !.stableAtStart = (CacheTexts = Tail(prototypes))]
  IN
  /\ FreeSlot(s)
  /\ IF text = << >>
     THEN /\ posted' = <<ErrorMessage(req, "NoText", 0)>>
          /\ UNCHANGED <<tasks, prototypeEmbeddings>>
     ELSE IF ~embedder
     THEN /\ posted' = <<ErrorMessage(req, "EmbedderNotInitialized", 0)>>
          /\ UNCHANGED <<tasks, prototypeEmbeddings>>
     ELSE IF prototypeEmbeddings.isNull
     THEN /\ prototypeEmbeddings' = EmptyCache
          /\ tasks' = [tasks EXCEPT ![s] = UpdateTask(tk, prototypes)]
          /\ posted' = << >>
     ELSE /\ tasks' = [tasks EXCEPT ![s] = ChunkTask(tk)]
          /\ posted' = IF ChunkTask(tk) = Idle
                       THEN <<ErrorMessage(req, "NoValidChunks", 0)>>
                       ELSE << >>
          /\ UNCHANGED prototypeEmbeddings
  /\ UNCHANGED <<embedder, currentLabels, prototypes, table>>

\* updatePrototypeEmbeddings resumed after embedder(prototypes[i]): the
\* embedding is pushed on the current cache and the loop goes on with the
\* current prototypes; after the last one the caller continues.  A rejected
\* call ends the caller in its catch.
ProtoDone(s, ok) ==
  LET tk     == tasks[s]
      pushed == [isNull |-> FALSE,
                 items  |-> Append(prototypeEmbeddings.items,
                                   [text |-> tk.arg, data |-> EmbedOf(tk.arg)])]
      next   == tk.i + 1
  IN
  /\ tk.pc = "proto"
  /\ IF ~ok
     THEN /\ tasks' = [tasks EXCEPT ![s] = Idle]
          /\ posted' = <<ErrorMessage(tk.req,
                           IF tk.kind = "init" THEN "InitializationFailed"
                           ELSE "EmbedderError", tk.i)>>
          /\ UNCHANGED prototypeEmbeddings
     ELSE /\ prototypeEmbeddings' = pushed
          /\ IF next < Len(prototypes)
             THEN /\ tasks' = [tasks EXCEPT ![s] =
                                 [tk EXCEPT !.i = next, !.arg = prototypes[next + 1]]]
                  /\ posted' = << >>
             ELSE IF tk.kind = "init"
             THEN /\ tasks' = [tasks EXCEPT ![s] = Idle]
                  /\ posted' = <<[Message("ready", tk.req) EXCEPT
                                    !.err = IF tk.fanoValid THEN "none"
                                            ELSE "fanoInvalid"]>>
             ELSE IF tk.kind = "set-labels"
             THEN /\ tasks' = [tasks EXCEPT ![s] = Idle]
                  /\ posted' = <<Message("labels-updated", tk.req)>>
             ELSE /\ tasks' = [tasks EXCEPT ![s] = ChunkTask(tk)]
                  /\ posted' = IF ChunkTask(tk) = Idle
                               THEN <<ErrorMessage(tk.req, "NoValidChunks", 0)>>
                               ELSE << >>
  /\ UNCHANGED <<embedder, currentLabels, prototypes, table>>

\* classifyText resumed after embedder(chunk.trim()): the embedding is added
\* (a rejected call is caught and the chunk skipped), then the loop goes on
\* to the next chunk that is not skipped; after the last one the result is
\* computed from the cache and the labels as they are now.
ChunkDone(s, ok) ==
  LET tk     == tasks[s]
      chunks == ChunksOf(tk.req.text, tk.req.options)
      emb    == EmbedOf(Trim(chunks[tk.ci]))
      sum    == AddEmbedding(tk.avgEmbedding, emb, ok)
      valid  == CountValid(tk.validChunks, ok)
      done   == IF ok THEN tk.embedded \cup {tk.ci} ELSE tk.embedded
      k      == NextChunk(chunks, tk.ci + 1)
  IN
  /\ tk.pc = "chunk"
  /\ IF k <= Len(chunks)
     THEN /\ tasks' = [tasks EXCEPT ![s] =
                         [tk EXCEPT !.ci = k, !.avgEmbedding = sum,
                                    !.validChunks = valid, !.embedded = done]]
          /\ posted' = << >>
     ELSE /\ tasks' = [tasks EXCEPT ![s] = Idle]
          /\ posted' = IF valid = 0
                       THEN <<[type |-> "error", of |-> tk.req,
                               err |-> "NoValidChunks", errAt |-> 0,
                               embedded |-> done]>>
                       ELSE <<ClassifyAnswer([tk EXCEPT !.embedded = done],
                                             sum, valid)>>
  /\ UNCHANGED <<embedder, currentLabels, prototypes, prototypeEmbeddings,
                 table>>

\* case "propagate"
RecvPropagate(startDim, chain) ==
  LET req == [NoRequest EXCEPT !.type = "propagate", !.startDim = startDim,
                               !.chain = chain]
      propResult == propagateNarrative(table, startDim, chain)
  IN
  /\ posted' =
       IF startDim = 0
       THEN <<ErrorMessage(req, "PropagationRequiresStartDimAndChain", 0)>>
       ELSE IF propResult.ok
       THEN <<[type |-> "propagation", of |-> req, err |-> "none", errAt |-> 0,
               finalSign |-> propResult.finalSign,
               finalDimension |-> propResult.finalDimension,
               steps |-> propResult.steps]>>
       ELSE <<ErrorMessage(req, propResult.err, propResult.errAt)>>
  /\ UNCHANGED <<embedder, currentLabels, prototypes, prototypeEmbeddings,
                 table, tasks>>

\* case "verify-fano"
RecvVerifyFano ==
  /\ posted' = <<[Message("fano-verification",
                          [NoRequest EXCEPT !.type = "verify-fano"]) EXCEPT
                    !.err = IF verifyFanoStructure(table).valid THEN "none"
                            ELSE "fanoInvalid"]>>
  /\ UNCHANGED <<embedder, currentLabels, prototypes, prototypeEmbeddings,
                 table, tasks>>

\* -------------------------------------------------------- specifications
\* a step of the worker that no page or script takes part in
WorkerAlone == UNCHANGED <<client, probe, evolution>>

RECURSIVE SeqsUpTo(_, _)
SeqsUpTo(S, n) ==
  IF n = 0 THEN {<< >>}
  ELSE LET shorter == SeqsUpTo(S, n - 1)
       IN  shorter \cup {Append(c, x) : c \in shorter, x \in S}

\* chain elements: the dimensions, and 0 and 8 on either side of them
ChainElements == 0..(NumDims + 1)

ChainInputs == SeqsUpTo(ChainElements, MaxChain)

\* the propagate requests of the worker specification
FewChains == {<<2, 4>>, <<1, 1>>}

\* activations that are in, or on their way into, updatePrototypeEmbeddings
Updating == {s \in Slots : tasks[s].pc \in {"load", "proto"}}

MayUpdate == Cardinality(Updating) < MaxUpdates

Next ==
  \/ \E s \in Slots : MayUpdate /\ RecvInit(s) /\ WorkerAlone
  \/ \E s \in Slots, ok \in BOOLEAN : LoadDone(s, ok) /\ WorkerAlone
  \/ \E s \in Slots, in \in SetLabelsInputs :
       /\ (Len(in[1]) = 7 /\ Len(in[2]) = 8) => MayUpdate
       /\ RecvSetLabels(s, in[1], in[2])
       /\ WorkerAlone
  \/ \E s \in Slots, in \in ClassifyInputs :
       RecvClassify(s, in[1], in[2]) /\ WorkerAlone
  \/ \E s \in Slots, ok \in BOOLEAN : ProtoDone(s, ok) /\ WorkerAlone
  \/ \E s \in Slots, ok \in BOOLEAN : ChunkDone(s, ok) /\ WorkerAlone
  \/ \E chain \in FewChains : RecvPropagate(1, chain) /\ WorkerAlone
  \/ RecvVerifyFano /\ WorkerAlone

Spec == Init /\ [][Next]_vars

\* The propagate handler alone: one request to the worker as loaded, over
\* every start in 0..8 and every chain of at most MaxChain elements of 0..8.
\* (The handler reads the table and nothing else, and nothing writes the
\* table, so the first request stands for every later one.)
NextProp ==
  /\ posted = << >>
  /\ \E startDim \in ChainElements, chain \in ChainInputs :
       RecvPropagate(startDim, chain)
  /\ WorkerAlone

SpecProp == Init /\ [][NextProp]_vars

\* A table edited in the source (the README invites it): the worker as
\* loaded with octTable, with a pair that is not anti-commutative, or with a
\* diagonal entry that is not <<-1, 0>>.
TableBadPair == [octTable EXCEPT ![2][1] = <<1, 4>>]

TableBadDiagonal == [octTable EXCEPT ![3][3] = <<1, 3>>]

TableInputs == {octTable, TableBadPair, TableBadDiagonal}

InitTable ==
  /\ embedder = FALSE
  /\ currentLabels = DefaultLabels
  /\ prototypes = DefaultPrototypes
  /\ prototypeEmbeddings = NullCache
  /\ table \in TableInputs
  /\ tasks = [s \in Slots |->
                IF s = 1 THEN [Idle EXCEPT !.kind = "init", !.pc = "load",
                                           !.req = InitRequest]
                ELSE Idle]
  /\ posted = << >>
  /\ client = NoClient
  /\ probe = NoProbe
  /\ evolution = NoEvolution

\* initialization and verification alone
NextTable ==
  \/ \E s \in Slots : MayUpdate /\ RecvInit(s) /\ WorkerAlone
  \/ \E s \in Slots, ok \in BOOLEAN : LoadDone(s, ok) /\ WorkerAlone
  \/ \E s \in Slots, ok \in BOOLEAN : ProtoDone(s, ok) /\ WorkerAlone
  \/ RecvVerifyFano /\ WorkerAlone

SpecTable == InitTable /\ [][NextTable]_vars

\* Initialization alone, an 'init' message being handled at any time, also
\* while another initEngine is still running.
NextInit ==
  \/ \E s \in Slots : RecvInit(s) /\ WorkerAlone
  \/ \E s \in Slots, ok \in BOOLEAN : LoadDone(s, ok) /\ WorkerAlone
  \/ \E s \in Slots, ok \in BOOLEAN : ProtoDone(s, ok) /\ WorkerAlone

SpecInit == Init /\ [][NextInit]_vars

\* The diagnostics over many probability vectors: the worker as it is after
\* 'ready', the embedder having returned any of DiagOutputs for each of the
\* seven prototypes, handles one classify request for TextA.
DiagOutputs == {<<60, 0>>, <<48, 36>>, <<0, 60>>}

InitDiag ==
  /\ embedder = TRUE
  /\ currentLabels = DefaultLabels
  /\ prototypes = DefaultPrototypes
  /\ \E d \in [1..NumDims -> DiagOutputs] :
       prototypeEmbeddings =
         [isNull |-> FALSE,
          items  |-> [k \in 1..NumDims |->
                        [text |-> DefaultPrototypes[k + 1], data |-> d[k]]]]
  /\ table = octTable
  /\ tasks = [s \in Slots |-> Idle]
  /\ posted = << >>
  /\ client = NoClient
  /\ probe = NoProbe
  /\ evolution = NoEvolution

NextDiag ==
  \/ /\ posted = << >>
     /\ RecvClassify(1, TextA, NoOptions)
     /\ WorkerAlone
  \/ \E ok \in BOOLEAN : ChunkDone(1, ok) /\ WorkerAlone

SpecDiag == InitDiag /\ [][NextDiag]_vars

\* The trajectory analysis over every ranking of the dimensions: as SpecDiag,
\* the embedder having returned seven outputs of seven different
\* similarities to the text, in any order.
RankOutputs ==
  {<<63, 16>>, <<60, 25>>, <<56, 33>>, <<52, 39>>, <<39, 52>>, <<33, 56>>,
   <<25, 60>>}

InitRank ==
  /\ embedder = TRUE
  /\ currentLabels = DefaultLabels
  /\ prototypes = DefaultPrototypes
  /\ \E d \in [1..NumDims -> RankOutputs] :
       /\ \A i, j \in 1..NumDims : d[i] = d[j] => i = j
       /\ prototypeEmbeddings =
            [isNull |-> FALSE,
             items  |-> [k \in 1..NumDims |->
                           [text |-> DefaultPrototypes[k + 1], data |-> d[k]]]]
  /\ table = octTable
  /\ tasks = [s \in Slots |-> Idle]
  /\ posted = << >>
  /\ client = NoClient
  /\ probe = NoProbe
  /\ evolution = NoEvolution

SpecRank == InitRank /\ [][NextDiag]_vars

\* The chunker over many texts: the worker as it is after 'ready' handles one
\* classify request, for every text of at most MaxTextLen characters over a
\* letter, a full stop and a space, and every pair of small chunk sizes.
InitReady ==
  /\ embedder = TRUE
  /\ currentLabels = DefaultLabels
  /\ prototypes = DefaultPrototypes
  /\ prototypeEmbeddings = [isNull |-> FALSE, items |-> FullCache(DefaultPrototypes)]
  /\ table = octTable
  /\ tasks = [s \in Slots |-> Idle]
  /\ posted = << >>
  /\ client = NoClient
  /\ probe = NoProbe
  /\ evolution = NoEvolution

ChunkTexts == SeqsUpTo({"a", ".", " "}, MaxTextLen)

ChunkOptions ==
  {NoOptions} \cup
  {[maxChunkSize |-> x, minChunkSize |-> n] : x \in 2..4, n \in 1..3}

NextChunker ==
  /\ posted = << >>
  /\ \E text \in ChunkTexts, options \in ChunkOptions :
       RecvClassify(1, text, options)
  /\ WorkerAlone

SpecChunker == InitReady /\ [][NextChunker]_vars

\* The diagnostics alone, over exact probability vectors: the seven entries
\* are whole tenths, at least one tenth each, and sum to 1.
ProbeTenths == 10

ProbeVectors ==
  {v \in [1..NumDims -> 1..4] : SumTo(v, NumDims) = ProbeTenths}

InitCover ==
  /\ embedder = TRUE
  /\ currentLabels = DefaultLabels
  /\ prototypes = DefaultPrototypes
  /\ prototypeEmbeddings = [isNull |-> FALSE, items |-> FullCache(DefaultPrototypes)]
  /\ table = octTable
  /\ tasks = [s \in Slots |-> Idle]
  /\ posted = << >>
  /\ client = NoClient
  /\ probe \in {[vector |-> v, sumExp |-> ProbeTenths, done |-> FALSE,
                  cohomologyClass |-> 0, zariskiCoverings |-> 0] :
                 v \in ProbeVectors}
  /\ evolution = NoEvolution

\* classifyText, the two lines that compute the invariants of the vector
Diagnose ==
  /\ ~probe.done
  /\ probe' = [probe EXCEPT
                 !.done = TRUE,
                 !.cohomologyClass = computeCohomologyClass(probe.vector, probe.sumExp),
                 !.zariskiCoverings =
                    Cardinality(zariskiCoverings(probe.vector, probe.sumExp))]
  /\ UNCHANGED <<embedder, currentLabels, prototypes, prototypeEmbeddings,
                 table, tasks, posted, client, evolution>>

NextCover == Diagnose

SpecCover == InitCover /\ [][NextCover]_vars

\* ------------------------------------------------------------- the owners
\* The code that creates the worker and talks to it: the extension's
\* background script, ContextKeeperApp, or a ClassifierClient.  A call is a
\* promise (for the background script, a pending sendResponse) with the
\* message listener or pendingCallbacks entry and the timer that belong to it.
ClientKinds == {"background", "contextKeeper", "classifierClient"}

NoMessage == [type |-> "none", of |-> NoRequest]

\* the timer's reject(new Error('Classification timeout'))
TimeoutMessage == [type |-> "timeout", of |-> NoRequest]

NoResponse ==
  [sent |-> FALSE, error |-> "none", success |-> FALSE, dominant |-> Undefined,
   label |-> "none", vector |-> << >>]

\* workerInitPromise is 0 for null, else the number of the promise; workers
\* and promises count the Workers and initialization promises constructed,
\* returned lists what the calls of initializeWorker returned
NewClient(kind) ==
  [kind |-> kind, started |-> FALSE, ready |-> FALSE, readyPosted |-> FALSE,
   messageId |-> 0, calls |-> << >>,
   workerInitPromise |-> 0, workers |-> 0, promises |-> 0, returned |-> << >>]

Call(op, id, req) ==
  [op |-> op, id |-> id, req |-> req, state |-> "pending", listening |-> TRUE,
   timer |-> (op = "classify"), settledBy |-> NoMessage, response |-> NoResponse]

\* a call that was turned down before anything was sent to the worker
Refused(op, req, error) ==
  [Call(op, Undefined, req) EXCEPT
     !.state = "refused", !.listening = FALSE, !.timer = FALSE,
     !.response = [NoResponse EXCEPT !.sent = TRUE, !.error = error]]

\* background.js, the classify listener: sendResponse(result) in then
ResultResponse(m) ==
  [NoResponse EXCEPT !.sent = TRUE, !.dominant = m.result.dominant,
                     !.label = m.result.label, !.vector = m.result.vector]

\* background.js, the classify listener: the response sent in catch
\* (dominant: 4, counted from 1 as the worker's dominant is here; the vector
\* in hundredths)
FallbackResponse ==
  [NoResponse EXCEPT !.sent = TRUE, !.error = "error", !.dominant = 4 + 1,
                     !.label = "Heart",
                     !.vector = <<10, 15, 12, 25, 20, 10, 8>>]

\* resolve / reject: a promise settles once; the background script answers
\* its requester when the classification promise settles
Settle(kind, c, outcome, m) ==
  IF c.state # "pending" THEN c
  ELSE [c EXCEPT
          !.state = outcome,
          !.settledBy = m,
          !.response = IF kind = "background" /\ c.op = "classify"
                       THEN (IF outcome = "resolved" THEN ResultResponse(m)
                             ELSE FallbackResponse)
                       ELSE @]

\* the ready flag is set by every message
SetsReadyAlways(type) == TRUE

\* if (type === 'ready') isWorkerReady = true
SetsReady(type) == type = "ready"

\* const { type, id, data, error } = e.data: the worker's messages carry no id
MessageId(m) == IF "id" \in DOMAIN m THEN m.id ELSE Undefined

\* messageHandler of classifyTextReal / handler of ContextKeeperApp.classifyText
ListenerOnMessage(kind, c, m) ==
  IF ~(c.op = "classify" /\ c.listening) THEN c
  ELSE IF m.type = "classification"
  THEN [Settle(kind, c, "resolved", m) EXCEPT !.listening = FALSE]
  ELSE IF m.type = "error"
  THEN [Settle(kind, c, "rejected", m) EXCEPT !.listening = FALSE]
  ELSE c

\* ClassifierClient.handleMessage
handleMessage(kind, c, m) ==
  IF c.listening /\ c.id = MessageId(m)
  THEN [Settle(kind, c, IF "error" \in DOMAIN m THEN "rejected" ELSE "resolved", m)
          EXCEPT !.listening = FALSE]
  ELSE c

\* worker.onmessage and the listeners added to the worker, for one message
OnMessage(cl, m) ==
  [cl EXCEPT
     !.ready = @ \/ SetsReady(m.type),
     !.readyPosted = @ \/ m.type = "ready",
     !.calls = [k \in 1..Len(@) |->
                  IF cl.kind = "classifierClient"
                  THEN handleMessage(cl.kind, @[k], m)
                  ELSE ListenerOnMessage(cl.kind, @[k], m)]]

RECURSIVE Deliver(_, _)
Deliver(cl, msgs) ==
  IF msgs = << >> THEN cl ELSE Deliver(OnMessage(cl, Head(msgs)), Tail(msgs))

\* a step of the owner in which nothing reaches the worker
WorkerUntouched ==
  /\ posted' = << >>
  /\ UNCHANGED <<embedder, currentLabels, prototypes, prototypeEmbeddings,
                 table, tasks>>

\* a step of the worker: what it posts is handled by the owner's listeners
Delivered ==
  /\ client.started
  /\ client' = Deliver(client, posted')
  /\ UNCHANGED <<probe, evolution>>

\* the owner registers a call and sends its request; an answer the worker
\* posts at once reaches the listeners with the call among them
Calling(c) ==
  /\ client' = Deliver([client EXCEPT !.calls = Append(@, c),
                                      !.messageId = IF client.kind = "classifierClient"
                                                    THEN @ + 1 ELSE @],
                       posted')
  /\ UNCHANGED <<probe, evolution>>

\* the owner turns a call down without sending anything
Refusing(c) ==
  /\ client' = [client EXCEPT !.calls = Append(@, c)]
  /\ WorkerUntouched
  /\ UNCHANGED <<probe, evolution>>

MayCall == client.started /\ Len(client.calls) < MaxCalls

\* the test is always false
NeverInitializing(p) == FALSE

\* if (workerInitPromise)
AlreadyInitializing(p) == p # 0

\* background.js, initializeWorker(), called at script start and on install:
\* the first call constructs the promise, whose executor creates the worker
\* (which initializes itself) or catches what new Worker throws (created =
\* FALSE); later calls return the promise kept in workerInitPromise
initializeWorker(created) ==
  /\ client.kind = "background"
  /\ Len(client.returned) < MaxInitCalls
  /\ IF AlreadyInitializing(client.workerInitPromise)
     THEN /\ created
          /\ client' = [client EXCEPT
                          !.returned = Append(@, client.workerInitPromise)]
     ELSE client' = [client EXCEPT
                       !.workers = IF created THEN @ + 1 ELSE @,
                       !.started = @ \/ created,
                       !.promises = @ + 1,
                       !.workerInitPromise = client.promises + 1,
                       !.returned = Append(@, client.promises + 1)]
  /\ WorkerUntouched
  /\ UNCHANGED <<probe, evolution>>

\* ContextKeeperApp.initializeWorker / ClassifierClient.initialize: the worker
\* is created and sent { type: 'init' }
StartWithInit(s) ==
  /\ client.kind \in {"contextKeeper", "classifierClient"}
  /\ ~client.started
  /\ RecvInit(s)
  /\ client' = Deliver([client EXCEPT !.started = TRUE, !.workers = @ + 1],
                       posted')
  /\ UNCHANGED <<probe, evolution>>

\* the classify listener with classifyTextReal, ContextKeeperApp.classifyText,
\* ClassifierClient.classify
ClientClassify(s, text) ==
  LET req == [NoRequest EXCEPT !.type = "classify", !.text = text,
                               !.options = NoOptions]
  IN
  /\ MayCall
  /\ IF ~client.ready
     THEN Refusing(Refused("classify", req, "notReady"))
     ELSE /\ RecvClassify(s, text, NoOptions)
          /\ Calling(Call("classify",
                          IF client.kind = "classifierClient"
                          THEN client.messageId ELSE Undefined, req))

\* the setLabels listener of background.js
BackgroundSetLabels(s, labels, protos) ==
  LET req == [NoRequest EXCEPT !.type = "set-labels", !.labels = labels,
                               !.prototypes = protos]
  IN
  /\ client.kind = "background"
  /\ MayCall
  /\ IF ~client.ready
     THEN Refusing(Refused("setLabels", req, "notReady"))
     ELSE /\ RecvSetLabels(s, labels, protos)
          \* worker.postMessage(...); sendResponse({ success: true })
          /\ Calling([Call("setLabels", Undefined, req) EXCEPT
                        !.state = "responded", !.listening = FALSE,
                        !.response = [NoResponse EXCEPT !.sent = TRUE,
                                                        !.success = TRUE]])

\* ClassifierClient.setLabels
ClientSetLabels(s, labels, protos) ==
  LET req == [NoRequest EXCEPT !.type = "set-labels", !.labels = labels,
                               !.prototypes = protos]
  IN
  /\ client.kind = "classifierClient"
  /\ MayCall
  /\ IF Len(labels) # 7
     THEN Refusing(Refused("setLabels", req, "mustBeSeven"))
     ELSE /\ RecvSetLabels(s, labels, protos)
          /\ Calling(Call("setLabels", client.messageId, req))

\* ClassifierClient.propagateNarrative
ClientPropagate(startDim, chain) ==
  /\ client.kind = "classifierClient"
  /\ MayCall
  /\ RecvPropagate(startDim, chain)
  /\ Calling(Call("propagate", client.messageId,
                  [NoRequest EXCEPT !.type = "propagate", !.startDim = startDim,
                                    !.chain = chain]))

\* the setTimeout callback of a classify call, 30 s after the call
Timeout(k) ==
  LET c == client.calls[k] IN
  /\ k \in 1..Len(client.calls)
  /\ c.timer
  /\ client' = [client EXCEPT !.calls[k] =
        IF client.kind = "classifierClient"
        \* if (this.pendingCallbacks.has(id)) { delete; reject }
        THEN (IF c.listening
              THEN [Settle(client.kind, c, "rejected", TimeoutMessage) EXCEPT
                      !.listening = FALSE, !.timer = FALSE]
              ELSE [c EXCEPT !.timer = FALSE])
        \* removeEventListener; reject
        ELSE [Settle(client.kind, c, "rejected", TimeoutMessage) EXCEPT
                !.listening = FALSE, !.timer = FALSE]]
  /\ WorkerUntouched
  /\ UNCHANGED <<probe, evolution>>

\* the texts the owners classify, and the set-labels requests they relay:
\* six labels, and seven labels with prototypes the worker leaves alone
ClientTexts == {TextA, TextBC}

ClientLabelInputs == {<<SixLabels, << >> >>, <<NewLabels, SevenPrototypes>>}

\* the model and the embeddings asked for by the initialization that started
\* first arrive first: a later initEngine() resumes when the earlier is over
InTurn(s) ==
  tasks[s].kind = "init" => \A o \in 1..(s - 1) : tasks[o].kind # "init"

\* the worker as loaded by one of its owners, which has not started yet
InitClient ==
  /\ embedder = FALSE
  /\ currentLabels = DefaultLabels
  /\ prototypes = DefaultPrototypes
  /\ prototypeEmbeddings = NullCache
  /\ table = octTable
  /\ tasks = [s \in Slots |->
                IF s = 1 THEN [Idle EXCEPT !.kind = "init", !.pc = "load",
                                           !.req = InitRequest]
                ELSE Idle]
  /\ posted = << >>
  /\ client \in {NewClient(kind) : kind \in ClientKinds}
  /\ probe = NoProbe
  /\ evolution = NoEvolution

NextClient ==
  \/ \E created \in BOOLEAN : initializeWorker(created)
  \/ \E s \in Slots : StartWithInit(s)
  \/ \E s \in Slots, ok \in BOOLEAN : InTurn(s) /\ LoadDone(s, ok) /\ Delivered
  \/ \E s \in Slots, ok \in BOOLEAN : InTurn(s) /\ ProtoDone(s, ok) /\ Delivered
  \/ \E s \in Slots, ok \in BOOLEAN : ChunkDone(s, ok) /\ Delivered
  \/ \E s \in Slots, text \in ClientTexts : ClientClassify(s, text)
  \/ \E s \in Slots, in \in ClientLabelInputs :
       BackgroundSetLabels(s, in[1], in[2])
  \/ \E s \in Slots, in \in ClientLabelInputs :
       ClientSetLabels(s, in[1], in[2])
  \/ \E chain \in FewChains : ClientPropagate(1, chain)
  \/ \E k \in 1..MaxCalls : Timeout(k)

SpecClient == InitClient /\ [][NextClient]_vars

\* ------------------------------------------------------ CoherenceAnalyzer
\* this.threshold = 0.8
CoherenceThresholdTenths == 8

\* v > 0 in place of v > this.threshold
SignificantAny(v, sumExp) == v > 0

\* v > this.threshold, for the probability v / sumExp
Significant(v, sumExp) == v * 10 > CoherenceThresholdTenths * sumExp

\* CoherenceAnalyzer.calculateCohomologyClass
calculateCohomologyClass(vector, sumExp) ==
  LET significantDims ==
        Cardinality({i \in 1..Len(vector) : Significant(vector[i], sumExp)})
  IN  IF significantDims <= 1 THEN 0 ELSE 1

\* CoherenceAnalyzer.findZariskiCoverings: the dimensions pushed, in order
RECURSIVE CoveringsFrom(_, _, _)
CoveringsFrom(vector, sumExp, i) ==
  IF i > Len(vector) THEN << >>
  ELSE (IF Significant(vector[i], sumExp)
        THEN <<[dimension |-> i, probability |-> vector[i]]>>
        ELSE << >>) \o CoveringsFrom(vector, sumExp, i + 1)

findZariskiCoverings(vector, sumExp) == CoveringsFrom(vector, sumExp, 1)

\* tensions.sort((a, b) => b.strength - a.strength), one insertion
RECURSIVE InsertByStrength(_, _)
InsertByStrength(sorted, t) ==
  IF sorted = << >> THEN <<t>>
  ELSE IF Head(sorted).strength >= t.strength
  THEN <<Head(sorted)>> \o InsertByStrength(Tail(sorted), t)
  ELSE <<t>> \o sorted

\* CoherenceAnalyzer.identifyTensions; vector[dominantDim - 1] is undefined
\* for a dominantDim outside 1..7 and no comparison with it holds
RECURSIVE TensionsFrom(_, _, _)
TensionsFrom(vector, dominantDim, i) ==
  IF i > Len(vector) THEN << >>
  ELSE LET rest == TensionsFrom(vector, dominantDim, i + 1)
       IN  IF /\ dominantDim \in 1..Len(vector)
              /\ i # dominantDim
              /\ vector[i] * 10 > CoherenceThresholdTenths * vector[dominantDim]
           THEN InsertByStrength(rest, [dimension |-> i, strength |-> vector[i]])
           ELSE rest

identifyTensions(vector, dominantDim) == TensionsFrom(vector, dominantDim, 1)

\* CoherenceAnalyzer.analyzeCoherence
analyzeCoherence(result) ==
  LET cohClass  == calculateCohomologyClass(result.vector, result.sumExp)
      coverings == findZariskiCoverings(result.vector, result.sumExp)
  IN  [isCoherent       |-> cohClass = 0,
       cohomologyClass  |-> cohClass,
       tensions         |-> IF cohClass = 1
                            THEN identifyTensions(result.vector, result.dominant)
                            ELSE << >>,
       zariskiCoverings |-> coverings]

NoCoherence ==
  [isCoherent |-> FALSE, cohomologyClass |-> Undefined, tensions |-> << >>,
   zariskiCoverings |-> << >>]

\* the vectors of n non-negative tenths that sum to total
RECURSIVE TenthsVectors(_, _)
TenthsVectors(n, total) ==
  IF n = 1 THEN {<<total>>}
  ELSE UNION {{Append(v, x) : v \in TenthsVectors(n - 1, total - x)} :
              x \in 0..total}

SimplexVectors == TenthsVectors(NumDims, ProbeTenths)

\* A classification result under the analyzer: every vector of seven
\* non-negative tenths summing to 1, with its dominant dimension; the worker
\* computes its cohomology class and the page analyzes its coherence.
InitCoherence ==
  /\ embedder = TRUE
  /\ currentLabels = DefaultLabels
  /\ prototypes = DefaultPrototypes
  /\ prototypeEmbeddings = [isNull |-> FALSE, items |-> FullCache(DefaultPrototypes)]
  /\ table = octTable
  /\ tasks = [s \in Slots |-> Idle]
  /\ posted = << >>
  /\ client = NoClient
  /\ probe \in {[vector |-> v, sumExp |-> ProbeTenths,
                  dominant |-> IndexOfPlus1(v, MaxScore(v)), done |-> FALSE,
                  cohomologyClass |-> Undefined, coherence |-> NoCoherence] :
                 v \in SimplexVectors}
  /\ evolution = NoEvolution

\* classifyText computes cohomologyClass for the result;
\* analyzeBeliefConsistency hands the result to analyzeCoherence
AnalyzeCoherence ==
  /\ ~probe.done
  /\ probe' = [probe EXCEPT
                 !.done = TRUE,
                 !.cohomologyClass = computeCohomologyClass(probe.vector, probe.sumExp),
                 !.coherence = analyzeCoherence(probe)]
  /\ UNCHANGED <<embedder, currentLabels, prototypes, prototypeEmbeddings,
                 table, tasks, posted, client, evolution>>

NextCoherence == AnalyzeCoherence

SpecCoherence == InitCoherence /\ [][NextCoherence]_vars

\* ------------------------------------------------- the self-evolving worker
\* mutateTable, one pass of the inner loop body for entry (i, j), with the
\* outcome of its Math.random() calls: no mutation, a sign flip, or a new
\* target dimension Math.floor(Math.random() * 8) written to (i, j) and,
\* with the opposite sign, to (j, i)
MutationChoices ==
  {[kind |-> "none", newTarget |-> 0], [kind |-> "flip", newTarget |-> 0]}
  \cup {[kind |-> "target", newTarget |-> d] : d \in 0..NumDims}

MutateEntry(t, i, j, choice) ==
  IF choice.kind = "none" THEN t
  ELSE IF choice.kind = "flip"
  THEN [t EXCEPT ![i][j] = <<-@[1], @[2]>>]
  ELSE LET retargeted == [t EXCEPT ![i][j] = <<@[1], choice.newTarget>>]
       IN  [retargeted EXCEPT
              ![j][i] = <<-retargeted[i][j][1], choice.newTarget>>]

\* a call of mutateTable on the Fano table, before its loops
InitMutate ==
  /\ embedder = TRUE
  /\ currentLabels = DefaultLabels
  /\ prototypes = DefaultPrototypes
  /\ prototypeEmbeddings = [isNull |-> FALSE, items |-> FullCache(DefaultPrototypes)]
  /\ table = octTable
  /\ tasks = [s \in Slots |-> Idle]
  /\ posted = << >>
  /\ client = NoClient
  /\ probe = [octTable |-> octTable, newTable |-> octTable, i |-> 1, j |-> 1,
              mutations |-> 0, done |-> FALSE]
  /\ evolution = NoEvolution

\* one iteration of for (i) for (j); at most MaxMutations entries are mutated
MutateStep(choice) ==
  /\ ~probe.done
  /\ choice.kind # "none" => probe.mutations < MaxMutations
  /\ probe' = [probe EXCEPT
                 !.newTable = MutateEntry(@, probe.i, probe.j, choice),
                 !.mutations = IF choice.kind = "none" THEN @ ELSE @ + 1,
                 !.j = IF probe.j = NumDims THEN 1 ELSE @ + 1,
                 !.i = IF probe.j = NumDims /\ probe.i < NumDims THEN @ + 1 ELSE @,
                 !.done = (probe.i = NumDims /\ probe.j = NumDims)]
  /\ UNCHANGED <<embedder, currentLabels, prototypes, prototypeEmbeddings,
                 table, tasks, posted, client, evolution>>

NextMutate == \E choice \in MutationChoices : MutateStep(choice)

SpecMutate == InitMutate /\ [][NextMutate]_vars

\* Rates are in millionths, fitness and diversity in hundredths.
InitialMutationRate == 100000

MaxMutationRate == 300000

MinMutationRate == 50000

InitialSelectionPressure == 700000

MinObservations == 20

Min(a, b) == IF a < b THEN a ELSE b

Max(a, b) == IF a > b THEN a ELSE b

\* arr.slice(-n)
LastN(arr, n) ==
  IF Len(arr) <= n THEN arr ELSE SubSeq(arr, Len(arr) - n + 1, Len(arr))

\* .reduce((a, b, i, arr) => i > 0 ? a + (b - arr[i-1]) : 0, 0): the first
\* element gives 0 and every later one adds its difference to the one before
RECURSIVE ImprovementFrom(_, _, _)
ImprovementFrom(arr, i, a) ==
  IF i > Len(arr) THEN a
  ELSE ImprovementFrom(arr, i + 1, IF i > 1 THEN a + (arr[i] - arr[i - 1]) ELSE 0)

RecentImprovement(fitnessHistory) == ImprovementFrom(LastN(fitnessHistory, 5), 1, 0)

\* n * n * variance of the values of a sequence
VarianceTimesSquare(values) ==
  LET n == Len(values)
  IN  n * SumTo([k \in 1..n |-> values[k] * values[k]], n)
      - SumTo(values, n) * SumTo(values, n)

\* detectEmergentPatterns: convergence > 0.9, that is variance * 10 < 0.1
Converged(history) ==
  /\ Len(history) >= 5
  /\ LET recent == LastN(history, 10)
         recentFitness == [k \in 1..Len(recent) |-> recent[k].fitness]
     IN  VarianceTimesSquare(recentFitness) < 100 * Len(recent) * Len(recent)

\* detectEmergentPatterns: chaos > 0.8, that is divVariance * 10 > 0.8
Chaotic(history) ==
  /\ Len(history) >= 5
  /\ LET recent == LastN(history, 10)
         recentDiversity == [k \in 1..Len(recent) |-> recent[k].populationDiversity]
     IN  VarianceTimesSquare(recentDiversity) > 800 * Len(recent) * Len(recent)

\* evolve: the adaptive mutation rate, after the best fitness was pushed
AdaptedRate(rate, fitnessHistory) ==
  IF Len(fitnessHistory) > 5
  THEN (IF RecentImprovement(fitnessHistory) < 1
        THEN Min(MaxMutationRate, (rate * 12) \div 10)
        ELSE Max(MinMutationRate, (rate * 9) \div 10))
  ELSE rate

\* metaCircularReflection: the modifications it returns
Modifications(rate, pressure, history) ==
  LET explored == IF Converged(history) THEN (rate * 15) \div 10 ELSE rate
  IN  [mutationRate      |-> IF Chaotic(history) THEN (explored * 7) \div 10
                             ELSE explored,
       selectionPressure |-> IF Chaotic(history) THEN (pressure * 12) \div 10
                             ELSE pressure]

\* best fitness of a population: 0 without observed transitions
FitnessValues == {0, 100}

\* computeDiversity divides the differing entries (at most 49) by 98
DiversityValues == {0, 50}

NewEngine(observations) ==
  [generation |-> 0, mutationRate |-> InitialMutationRate,
   selectionPressure |-> InitialSelectionPressure,
   fitnessHistory |-> << >>, evolutionHistory |-> << >>,
   observations |-> observations]

\* the self-evolving worker after initEngine, with the transitions observed
\* so far
InitEvolve ==
  /\ embedder = TRUE
  /\ currentLabels = DefaultLabels
  /\ prototypes = DefaultPrototypes
  /\ prototypeEmbeddings = [isNull |-> FALSE, items |-> FullCache(DefaultPrototypes)]
  /\ table = octTable
  /\ tasks = [s \in Slots |-> Idle]
  /\ posted = << >>
  /\ client = NoClient
  /\ probe = NoProbe
  /\ evolution \in {NewEngine(n) : n \in {0, MinObservations}}

\* case "evolve" / the timer set by "classify": triggerEvolution(forceEvolve)
\* with the best fitness and the diversity of the random population; the
\* evolved table itself is not followed
triggerEvolution(forceEvolve, fitness, diversity) ==
  LET e == evolution
      fitnessHistory == Append(e.fitnessHistory, fitness)
      adapted == AdaptedRate(e.mutationRate, fitnessHistory)
      previousFitness == IF e.evolutionHistory # << >>
                         THEN e.evolutionHistory[Len(e.evolutionHistory)].fitness
                         ELSE 0
      history == Append(e.evolutionHistory,
                        [fitness |-> fitness, mutationRate |-> adapted,
                         populationDiversity |-> diversity])
      modifications == Modifications(adapted, e.selectionPressure, history)
  IN
  /\ e.generation < MaxGenerations
  /\ forceEvolve \/ e.observations >= MinObservations
  /\ e.observations = 0 => fitness = 0
  /\ evolution' =
       IF fitness > previousFitness \/ forceEvolve
       THEN [e EXCEPT !.generation = @ + 1,
                      !.fitnessHistory = fitnessHistory,
                      !.evolutionHistory = history,
                      !.mutationRate = modifications.mutationRate,
                      !.selectionPressure = modifications.selectionPressure]
       ELSE [e EXCEPT !.generation = @ + 1,
                      !.fitnessHistory = fitnessHistory,
                      !.mutationRate = adapted]
  /\ UNCHANGED <<embedder, currentLabels, prototypes, prototypeEmbeddings,
                 table, tasks, posted, client, probe>>

\* case "reset-evolution"
resetEvolution ==
  /\ evolution.generation > 0
  /\ evolution' = [evolution EXCEPT
                     !.observations = 0, !.evolutionHistory = << >>,
                     !.generation = 0, !.fitnessHistory = << >>,
                     !.mutationRate = InitialMutationRate]
  /\ UNCHANGED <<embedder, currentLabels, prototypes, prototypeEmbeddings,
                 table, tasks, posted, client, probe>>

NextEvolve ==
  \/ \E forceEvolve \in BOOLEAN, fitness \in FitnessValues,
        diversity \in DiversityValues :
       triggerEvolution(forceEvolve, fitness, diversity)
  \/ resetEvolution

SpecEvolve == InitEvolve /\ [][NextEvolve]_vars

\* ==================================================================
\* Properties
\* ==================================================================
Posted == {posted[k] : k \in 1..Len(posted)}

Classifications == {m \in Posted : m.type = "classification"}

Propagations == {m \in Posted : m.type = "propagation"}

\* the answers to propagate requests whose start is in 1..7
PropagateAnswers ==
  {m \in Posted : m.of.type = "propagate" /\ m.of.startDim \in Dims}

InRange(chain) == \A k \in 1..Len(chain) : chain[k] \in Dims

\* Table[i][j] and Table[j][i] have the same target and opposite signs
Antisymmetric(t) ==
  \A i \in Dims, j \in Dims :
    i # j => t[i][j][2] = t[j][i][2] /\ t[i][j][1] = -t[j][i][1]

\* C1: a classification whose request arrived when the cache held the
\* embeddings of the current prototypes computes its vector and its label
\* from one single configuration: either the labels and the seven
\* prototypes that were current when it arrived, or the labels and the seven
\* prototypes that are current when it is answered; never from a prototype
\* cache that a set-labels request arriving in between is rebuilding.
C1_SingleConfiguration ==
  \A m \in Classifications :
    m.stableAtStart =>
      \/ /\ m.labelsNow = m.labelsAtStart
         /\ m.cacheTexts = Tail(m.prototypesAtStart)
      \/ m.cacheTexts = Tail(prototypes)

\* C2: every 'classification' message carries a vector of exactly 7
\* entries, a dominant index in 1..7 and the label currentLabels[dominant-1].
C2_ClassificationShape ==
  \A m \in Classifications :
    /\ Len(m.result.vector) = 7
    /\ m.result.dominant \in 1..7
    /\ m.result.label = currentLabels[m.result.dominant]

\* C3: a propagate request with startSymbol in 1..7 and a chain of elements
\* of 1..7 is answered by a 'propagation' message with finalSign in {-1, 1},
\* finalSymbol in 0..7 and a trace; it never ends in an error.
C3_ValidRequestAnswered ==
  \A m \in PropagateAnswers :
    InRange(m.of.chain) =>
      /\ m.type = "propagation"
      /\ m.finalSign \in {-1, 1}
      /\ m.finalDimension \in 0..7
      /\ Len(m.steps) = Len(m.of.chain) + 1

\* C4 (as claimed): in the trace of a propagation, a state whose symbol is
\* in 1..7 is followed by a state whose symbol is in 1..7.
C4_NeverEntersZero ==
  \A m \in Propagations :
    \A k \in 1..Len(m.of.chain) :
      m.steps[k][2] \in Dims => m.steps[k + 1][2] \in Dims

\* C4 (amended): from a state whose symbol s is in 1..7 and an input n in
\* 1..7, the next symbol is in 1..7 when n # s, and it is 0, with the sign
\* negated, when n = s.
C4_ZeroExactlyOnRepeat ==
  \A m \in Propagations :
    \A k \in 1..Len(m.of.chain) :
      m.steps[k][2] \in Dims =>
        IF m.of.chain[k] = m.steps[k][2]
        THEN m.steps[k + 1] = <<-m.steps[k][1], 0>>
        ELSE m.steps[k + 1][2] \in Dims

C4_Witness ==
  \E m \in Propagations :
    /\ Len(m.of.chain) = 2
    /\ m.of.chain[1] # m.of.startDim
    /\ m.steps[2][2] \in Dims
    /\ m.of.chain[2] = m.steps[2][2]
    /\ m.finalDimension = 0

\* the outcome of propagating [a] from s and then [b] from the resulting
\* symbol, the second sign multiplied by the first
ComposedOutcome(s, a, b) ==
  LET first  == propagateNarrative(table, s, <<a>>)
      second == propagateNarrative(table, first.finalDimension, <<b>>)
  IN  IF first.ok /\ second.ok
      THEN [ok |-> TRUE, finalSign |-> first.finalSign * second.finalSign,
            finalDimension |-> second.finalDimension]
      ELSE [ok |-> FALSE, finalSign |-> 0, finalDimension |-> 0]

\* C5: for s, a, b in 1..7, the answer to propagating [a, b] from s is the
\* outcome of propagating [a] from s and then [b] from the resulting
\* symbol, with the sign carried multiplicatively; both fail together.
C5_Composition ==
  \A m \in PropagateAnswers :
    (Len(m.of.chain) = 2 /\ InRange(m.of.chain)) =>
      LET c == ComposedOutcome(m.of.startDim, m.of.chain[1], m.of.chain[2])
      IN  /\ (m.type = "propagation") = c.ok
          /\ m.type = "propagation" =>
               /\ m.finalSign = c.finalSign
               /\ m.finalDimension = c.finalDimension

\* a composition whose first step gives a negative sign that the second
\* step turns positive
C5_Witness ==
  \E m \in Propagations :
    /\ Len(m.of.chain) = 2
    /\ m.steps[2][1] = -1
    /\ m.finalSign = 1

\* C6: the table is antisymmetric, and it is the table of the source in
\* every state the handlers (classify, propagate, set-labels) lead to.
C6_TableAntisymmetric ==
  /\ Antisymmetric(table)
  /\ table = octTable

C6_Witness ==
  /\ Antisymmetric(table)
  /\ \E m \in Posted : m.type = "labels-updated" /\ Len(m.of.prototypes) = 8
  /\ \E s \in Slots : tasks[s].pc = "chunk"

\* a table with a pair that is not antisymmetric or with a diagonal entry
\* other than (-1, 0)
Malformed(t) ==
  \/ ~Antisymmetric(t)
  \/ \E i \in Dims : t[i][i] # <<-1, 0>>

\* C7: with a malformed table, initialization reports an error and the
\* worker posts no 'ready'.
C7_MalformedTableNoReady ==
  Malformed(table) => \A m \in Posted : m.type # "ready"

\* the first element of the chain that is outside 1..7
FirstOutOfRange(chain) ==
  CHOOSE k \in 1..Len(chain) :
    chain[k] \notin Dims /\ \A j \in 1..(k - 1) : chain[j] \in Dims

\* C8: a chain with an element outside 1..7 fails with an error at that
\* element; no 'propagation' message is posted and the table, the labels and
\* the prototype cache are unchanged.
C8_OutOfRangeFailsThere ==
  \A m \in PropagateAnswers :
    ~InRange(m.of.chain) =>
      /\ m.type = "error"
      /\ m.errAt = FirstOutOfRange(m.of.chain)
      /\ table = octTable
      /\ currentLabels = DefaultLabels
      /\ prototypes = DefaultPrototypes
      /\ prototypeEmbeddings = NullCache

\* C9: in every classification, dominant is the index of the first maximum
\* of the vector (counted from 1) and confidence is that maximum.
C9_DominantIsFirstMaximum ==
  \A m \in Classifications :
    LET v == m.result.vector
        d == m.result.dominant
    IN  /\ d \in 1..Len(v)
        /\ \A k \in 1..Len(v) : v[k] <= v[d]
        /\ \A k \in 1..(d - 1) : v[k] < v[d]
        /\ m.result.confidence = v[d]

\* a classification whose maximum occurs more than once
C9_Witness ==
  \E m \in Classifications :
    \E k \in 1..Len(m.result.vector) :
      /\ k # m.result.dominant
      /\ m.result.vector[k] = m.result.vector[m.result.dominant]

\* C10: every probability vector of a classification has 7 non-negative
\* entries that sum to 1 (the numerators sum to the denominator sumExp).
C10_ProbabilityVector ==
  \A m \in Classifications :
    LET v == m.result.vector
    IN  /\ Len(v) = 7
        /\ \A k \in 1..Len(v) : v[k] >= 0
        /\ m.result.sumExp > 0
        /\ SumTo(v, Len(v)) = m.result.sumExp

\* ------------------------------------------------------------------
\* the probability vector whose seven entries are all 1/7
Uniform(m) ==
  /\ Len(m.result.vector) = NumDims
  /\ \A k \in 1..NumDims : m.result.vector[k] * NumDims = m.result.sumExp

\* the cyclic positions i in 0..6 with vector[(i+1) mod 7] - vector[i] > 0.1
RisingEdges(m) ==
  {i \in 0..6 : (m.result.vector[((i + 1) % 7) + 1] - m.result.vector[i + 1]) * 10
                  > m.result.sumExp}

\* C19: the coherence flag of every classification is the parity of the
\* number of cyclic positions whose forward difference is greater than 0.1;
\* it is 0 or 1, and it is 0 for the uniform vector.
C19_CoherenceIsParityOfRisingEdges ==
  \A m \in Classifications :
    Len(m.result.vector) = 7 =>
      /\ m.result.cohomologyClass = Cardinality(RisingEdges(m)) % 2
      /\ m.result.cohomologyClass \in {0, 1}
      /\ Uniform(m) => m.result.cohomologyClass = 0

\* a classification with an odd number of rising edges, and a falling edge
\* that is over the threshold too
C19_Witness ==
  \E m \in Classifications :
    /\ Len(m.result.vector) = 7
    /\ m.result.cohomologyClass = 1
    /\ \E i \in 0..6 :
         (m.result.vector[i + 1] - m.result.vector[((i + 1) % 7) + 1]) * 10
           > m.result.sumExp

\* C20 as stated: for the uniform vector the covering count is 0.
C20_UniformCoveringCountZero ==
  \A m \in Classifications : Uniform(m) => m.result.zariskiCoverings = 0

\* C20 amended: for the uniform vector the covering count is 8, the seven
\* subsets of six entries (6/7 >= 0.8) and the full set.
C20_UniformCoveringCountEight ==
  \A m \in Classifications : Uniform(m) => m.result.zariskiCoverings = 8

C20_Witness == \E m \in Classifications : Uniform(m)

\* ------------------------------------------------------------------
\* the chunks of a request that are not skipped as trivial
ValidChunkIndexes(req) ==
  LET chunks == ChunksOf(req.text, req.options)
  IN  {k \in 1..Len(chunks) : Len(Trim(chunks[k])) >= MinTrimmedChunk}

\* the sum of the embeddings of the chunks in S
RECURSIVE EmbeddingSum(_, _)
EmbeddingSum(req, S) ==
  IF S = {} THEN <<0, 0>>
  ELSE LET k    == CHOOSE x \in S : TRUE
           emb  == EmbedOf(Trim(ChunksOf(req.text, req.options)[k]))
           rest == EmbeddingSum(req, S \ {k})
       IN  [j \in 1..2 |-> emb[j] + rest[j]]

\* what a classify request returns when it is the only request handled by
\* the worker after 'ready', every chunk being embedded
FirstResult(req) ==
  ClassifyResult(EmbeddingSum(req, ValidChunkIndexes(req)),
                 Cardinality(ValidChunkIndexes(req)),
                 FullCache(DefaultPrototypes), DefaultLabels)

\* C11: while the configuration is the one the worker started with, every
\* classification whose request arrived with the prototype cache complete
\* and whose chunks were all embedded carries the vector, the
\* dominant index, the coherence flag and the covering count that the same
\* request gets when it is handled alone after 'ready'; so two such
\* requests with the same text and options get identical results, whatever
\* was handled in between.
C11_SameRequestSameResult ==
  \A m \in Classifications :
    ( /\ currentLabels = DefaultLabels
      /\ prototypes = DefaultPrototypes
      /\ m.stableAtStart
      /\ m.result.chunksProcessed = Cardinality(ValidChunkIndexes(m.of)) )
    => LET first == FirstResult(m.of)
       IN  /\ m.result.vector = first.vector
           /\ m.result.dominant = first.dominant
           /\ m.result.cohomologyClass = first.cohomologyClass
           /\ m.result.zariskiCoverings = first.zariskiCoverings

\* ------------------------------------------------------------------
\* the classify requests that are being handled or have just been answered
ClassifyRequests ==
  {m.of : m \in {x \in Posted : x.of.type = "classify" /\ x.of.text # << >>}}
  \cup {tasks[s].req : s \in {x \in Slots : tasks[x].kind = "classify"}}

RECURSIVE Concat(_)
Concat(seqs) == IF seqs = << >> THEN << >> ELSE Head(seqs) \o Concat(Tail(seqs))

MaxChunkSizeOf(req) == OptOr(req.options.maxChunkSize, DefaultMaxChunkSize)

MinChunkSizeOf(req) == OptOr(req.options.minChunkSize, DefaultMinChunkSize)

\* C12: a chunk is longer than maxChunkSize only when a single sentence of
\* the text is itself longer than maxChunkSize.
C12_ChunkWithinMax ==
  \A req \in ClassifyRequests :
    LET chunks    == ChunksOf(req.text, req.options)
        sentences == SentencesOf(req.text)
    IN  \A k \in 1..Len(chunks) :
          Len(chunks[k]) > MaxChunkSizeOf(req) =>
            \E j \in 1..Len(sentences) : Len(sentences[j]) > MaxChunkSizeOf(req)

\* C13: the chunks, concatenated in order, are the text.
C13_ChunksReconstructText ==
  \A req \in ClassifyRequests :
    Concat(ChunksOf(req.text, req.options)) = req.text

\* C14: every chunk except the last has at least minChunkSize characters,
\* and the chunks are the sentences in order, an under-sized accumulation
\* being continued with the next sentence.
C14_EmittedChunksReachMin ==
  \A req \in ClassifyRequests :
    LET chunks == ChunksOf(req.text, req.options)
    IN  /\ \A k \in 1..(Len(chunks) - 1) : Len(chunks[k]) >= MinChunkSizeOf(req)
        /\ Concat(chunks) = Concat(SentencesOf(req.text))

\* a text cut into several chunks, one of them an under-sized accumulation
\* that was continued past maxChunkSize
C14_Witness ==
  \E req \in ClassifyRequests :
    LET chunks    == ChunksOf(req.text, req.options)
        sentences == SentencesOf(req.text)
    IN  /\ Len(chunks) >= 2
        /\ Len(chunks[1]) > MaxChunkSizeOf(req)
        /\ \A j \in 1..Len(sentences) : Len(sentences[j]) < MinChunkSizeOf(req)

\* ------------------------------------------------------------------
\* the text is empty, or none of its chunks has a trimmed length of 10
NoUsableChunk(req) == req.text = << >> \/ ValidChunkIndexes(req) = {}

\* C15: every message that answers a classify request whose text is empty,
\* white space alone, or without a chunk of trimmed length 10 is an error,
\* and no chunk of such a request is given to the embedder.
C15_NoUsableChunkIsError ==
  /\ \A m \in Posted :
       (m.of.type = "classify" /\ NoUsableChunk(m.of)) => m.type = "error"
  /\ \A s \in Slots :
       (tasks[s].kind = "classify" /\ NoUsableChunk(tasks[s].req))
         => tasks[s].pc # "chunk"

\* a request of white space alone answered with the error of classifyText
C15_Witness ==
  \E m \in Posted :
    /\ m.of.type = "classify"
    /\ m.of.text = TextBlank
    /\ m.type = "error"
    /\ m.err = "NoValidChunks"

\* ------------------------------------------------------------------
\* the messages posted at the end of the chunk loop of a classify request
ChunkLoopAnswers ==
  {m \in Posted : m.of.type = "classify" /\ "embedded" \in DOMAIN m}

BadLabels(req) == req.type = "set-labels" /\ Len(req.labels) # 7

\* C17: a step that handles a set-labels request whose labels array has not
\* exactly 7 entries posts an error for it, suspends nothing, and leaves the
\* labels, the prototype descriptions and the prototype embeddings as they
\* were.
C17_BadLabelsRejected ==
  [][ ( \/ \E k \in 1..Len(posted') : BadLabels(posted'[k].of)
        \/ \E s \in Slots : BadLabels(tasks'[s].req) )
      => /\ \A k \in 1..Len(posted') :
              BadLabels(posted'[k].of) => posted'[k].type = "error"
         /\ \A s \in Slots : ~BadLabels(tasks'[s].req)
         /\ UNCHANGED <<currentLabels, prototypes, prototypeEmbeddings>>
    ]_vars

\* six labels rejected while a replaced configuration is active and stays
C17_Witness ==
  \E m \in Posted :
    /\ m.type = "error"
    /\ BadLabels(m.of)
    /\ currentLabels = NewLabels
    /\ prototypes = NewPrototypes
    /\ CacheTexts = Tail(NewPrototypes)

\* ------------------------------------------------------------------
\* a message that ends a set-labels request
EndsSetLabels(m) ==
  m.of.type = "set-labels" /\ m.type \in {"labels-updated", "error"}

\* C18: when a set-labels request ends, either the labels, the prototype
\* descriptions and the seven prototype embeddings are those of the request
\* (the labels alone for a request without prototypes), or the request was
\* rejected on arrival and none of them has changed.
C18_ConfigurationAtomic ==
  [][ \A k \in 1..Len(posted') :
        EndsSetLabels(posted'[k]) =>
          LET req == posted'[k].of
          IN  \/ /\ currentLabels' = req.labels
                 /\ prototypes' = req.prototypes
                 /\ CacheTexts' = Tail(req.prototypes)
              \/ /\ req.prototypes = << >>
                 /\ currentLabels' = req.labels
                 /\ UNCHANGED <<prototypes, prototypeEmbeddings>>
              \/ /\ \A s \in Slots : tasks[s].req # req
                 /\ UNCHANGED <<currentLabels, prototypes, prototypeEmbeddings>>
    ]_vars

\* ------------------------------------------------------------------
\* the sum of the entries of v at the indices in S
RECURSIVE SetSum(_, _)
SetSum(v, S) ==
  IF S = {} THEN 0
  ELSE LET k == CHOOSE x \in S : TRUE IN v[k] + SetSum(v, S \ {k})

\* the non-empty subsets of the 7 indices whose mass is at least 0.8
HeavySubsets(v, den) ==
  {S \in SUBSET (1..7) : S # {} /\ SetSum(v, S) * 10 >= 8 * den}

C23_CyclicReturnsToStart ==
  \A m \in Classifications :
    /\ m.trajectory.cyclic.ok
    /\ m.trajectory.cyclic.finalDimension = m.trajectory.startDimension

\* C28: a classify request whose classifyText returned a 7-entry vector
\* never ends with the error raised by analyzeNarrativeTrajectory.
C28_TrajectoryNeverRaises ==
  \A m \in ChunkLoopAnswers :
    (m.embedded # {} /\ Len(prototypeEmbeddings.items) = 7)
      => m.type = "classification"

\* ------------------------------------------------------------------
\* C29: whenever 'ready' is posted the prototype cache holds exactly the 7
\* embeddings of the 7 prototype descriptions, in their order.
C29_ReadyMeansCacheComplete ==
  \A m \in Posted :
    m.type = "ready" => prototypeEmbeddings.items = FullCache(prototypes)

\* ------------------------------------------------------------------
CallIndexes == 1..Len(client.calls)

\* a response that carries a dominant index, a label or a vector
CarriesResult(r) ==
  r.sent /\ (r.dominant # Undefined \/ r.label # "none" \/ r.vector # << >>)

\* C22: the response of the extension background to a 'classify' request
\* carries a dominant index, label or vector only when the worker produced
\* that classification for the request; a classification that failed or
\* timed out is not presented as a result.
C22_ResultOnlyFromWorker ==
  client.kind = "background" =>
    \A k \in CallIndexes :
      LET c == client.calls[k] IN
      (c.op = "classify" /\ CarriesResult(c.response)) =>
        /\ c.settledBy.type = "classification"
        /\ c.settledBy.of = c.req
        /\ c.response.dominant = c.settledBy.result.dominant
        /\ c.response.label = c.settledBy.result.label
        /\ c.response.vector = c.settledBy.result.vector

\* C24: when the worker posts the 'classification' answer to a classify
\* call of a ready ClassifierClient before the call's timeout has fired, the
\* call resolves with that classification.
C24_ClassifyResolvesWithAnswer ==
  client.kind = "classifierClient" =>
    \A m \in Classifications :
      (\E k \in CallIndexes :
         LET c == client.calls[k] IN
         c.op = "classify" /\ c.req = m.of /\ c.timer)
      => (\E k \in CallIndexes :
            LET c == client.calls[k] IN
            /\ c.op = "classify" /\ c.req = m.of
            /\ c.state = "resolved" /\ c.settledBy = m)

\* C25: with two classification requests in flight through one worker
\* (background script, ContextKeeperApp), a classify promise that is settled
\* by the worker's answer to a classify request is settled by the answer to
\* its own request.
C25_SettledByOwnAnswer ==
  client.kind \in {"background", "contextKeeper"} =>
    \A k \in CallIndexes :
      LET c == client.calls[k] IN
      (c.op = "classify" /\ c.settledBy.of.type = "classify")
        => c.settledBy.of = c.req

\* C26: once the worker has answered a setLabels or propagateNarrative call
\* of a ClassifierClient, the call's promise is settled and its entry is
\* gone from pendingCallbacks.
C26_AnsweredCallsSettle ==
  client.kind = "classifierClient" =>
    \A m \in Posted :
      (/\ m.of.type \in {"set-labels", "propagate"}
       /\ \E k \in CallIndexes : client.calls[k].req = m.of)
      => (\E k \in CallIndexes :
            LET c == client.calls[k] IN
            /\ c.req = m.of
            /\ c.state \in {"resolved", "rejected"}
            /\ ~c.listening)

\* C27: a setLabels request relayed by the extension background that the
\* worker rejects is not reported to its requester as successful.
C27_SuccessOnlyIfApplied ==
  client.kind = "background" =>
    \A k \in CallIndexes :
      LET c == client.calls[k] IN
      (c.op = "setLabels" /\ c.response.success)
        => ~\E m \in Posted : m.type = "error" /\ m.of = c.req

\* C30: no 'classify' request reaches the worker, and no classify call is
\* accepted by its owner, before the worker has posted 'ready'; the owner's
\* ready flag is set only once 'ready' has been posted.
C30_NoClassifyBeforeReady ==
  /\ client.ready => client.readyPosted
  /\ ClassifyRequests # {} => client.readyPosted
  /\ \A k \in CallIndexes :
       (client.calls[k].op = "classify" /\ client.calls[k].state # "refused")
         => client.readyPosted

\* a ClassifierClient that refused one classify call and, after 'ready',
\* sent the next to the worker, which is working on it
C30_Witness ==
  /\ client.kind = "classifierClient"
  /\ Len(client.calls) = 2
  /\ client.calls[1].op = "classify" /\ client.calls[1].state = "refused"
  /\ client.calls[2].op = "classify" /\ client.calls[2].state = "pending"
  /\ \E s \in Slots : tasks[s].req = client.calls[2].req

\* ------------------------------------------------------------------
\* C31: a propagate request whose startDim is not in 1..7 is answered with
\* an error, never with a 'propagation', whatever its chain is.
C31_BadStartDimRejected ==
  \A m \in Posted :
    (m.of.type = "propagate" /\ m.of.startDim \notin Dims) => m.type = "error"

\* ------------------------------------------------------------------
\* C32: for every probability vector, analyzeCoherence reports the same
\* cohomology class, and so the same coherent / tension verdict, as the
\* worker's computeCohomologyClass reports for that vector.
C32_AnalyzerAgreesWithWorker ==
  probe.done =>
    /\ probe.coherence.cohomologyClass = probe.cohomologyClass
    /\ probe.coherence.isCoherent = (probe.cohomologyClass = 0)

\* C33: for every vector of 7 non-negative entries summing to 1,
\* calculateCohomologyClass returns 0: analyzeCoherence reports isCoherent
\* with no tensions, and findZariskiCoverings returns at most one covering.
C33_AnalyzerAlwaysCoherent ==
  probe.done =>
    /\ probe.coherence.cohomologyClass = 0
    /\ probe.coherence.isCoherent
    /\ probe.coherence.tensions = << >>
    /\ Len(probe.coherence.zariskiCoverings) <= 1

\* a vector with one entry above 0.8 and a second one above zero, analyzed
C33_Witness ==
  /\ probe.done
  /\ Len(probe.coherence.zariskiCoverings) = 1
  /\ Cardinality({i \in 1..NumDims : probe.vector[i] > 0}) >= 2

\* ------------------------------------------------------------------
\* C34: initializeWorker in the extension background creates at most one
\* Worker however many times it is called, and every call returns the same
\* initialization promise.
C34_OneWorkerOnePromise ==
  client.kind = "background" =>
    /\ client.workers <= 1
    /\ client.promises <= 1
    /\ \A i, j \in 1..Len(client.returned) :
         client.returned[i] = client.returned[j]

\* initializeWorker called twice, at script start and on install, with the
\* worker created by the first call
C34_Witness ==
  /\ client.kind = "background"
  /\ Len(client.returned) = 2
  /\ client.workers = 1

\* ------------------------------------------------------------------
\* same target and opposite signs in (i, j) and (j, i), for all i # j
AntiCommutative(t) ==
  \A i, j \in Dims :
    i # j => (t[i][j][2] = t[j][i][2] /\ t[i][j][1] = -t[j][i][1])

\* C35: mutateTable applied to an antisymmetric table returns, for any
\* outcome of its random choices, a table that is still antisymmetric.
C35_MutationKeepsAntiCommutativity ==
  ("newTable" \in DOMAIN probe /\ probe.done /\ AntiCommutative(probe.octTable))
    => AntiCommutative(probe.newTable)

\* C36: the mutation rate stays within 5%..30% after every sequence of
\* evolve, forced-evolve, meta-reflection and reset-evolution steps.
C36_MutationRateInRange ==
  /\ evolution.mutationRate >= MinMutationRate
  /\ evolution.mutationRate <= MaxMutationRate

====
